---- MODULE Spec2Model ----
(***************************************************************************)
(* Entity-resolution and text-normalisation pipeline of                    *)
(* verkiezing-vibecheck: the page-aware chunker (app/services/pdf.py),     *)
(* the party and candidate matchers (app/services/notubiz.py) and the      *)
(* fuzzy party matcher (app/services/polls.py).                            *)
(*                                                                         *)
(* A Python str is modelled as a sequence of one-character strings.        *)
(***************************************************************************)
EXTENDS Integers, Sequences, FiniteSets, TLC

\* ------------------------------------------------------------------------
\* Bounds of the model
\* ------------------------------------------------------------------------
MaxPages == 2
MaxChunkSize == 7
MaxOverlap == 4
MaxParties == 2
MaxPollParties == 2
MaxCandidates == 2
MaxRows == 2
MaxNameLen == 3
MaxLines == 3
MaxUpserts == 2

\* ------------------------------------------------------------------------
\* String helpers (Python str methods)
\* ------------------------------------------------------------------------
Min(S) == CHOOSE x \in S : \A y \in S : x <= y
Max(S) == CHOOSE x \in S : \A y \in S : x >= y

\* str.isspace() on one character
IsSpace(c) == c \in {" ", "\n", "\t"}

\* index of the first / last non-whitespace character (Len+1 / 0 when none)
FirstNonSpace(s) ==
    LET idx == {i \in 1..Len(s) : ~IsSpace(s[i])}
    IN  IF idx = {} THEN Len(s) + 1 ELSE Min(idx)
LastNonSpace(s) ==
    LET idx == {i \in 1..Len(s) : ~IsSpace(s[i])}
    IN  IF idx = {} THEN 0 ELSE Max(idx)

\* str.strip(), str.lstrip()
Strip(s) == SubSeq(s, FirstNonSpace(s), LastNonSpace(s))
LStrip(s) == SubSeq(s, FirstNonSpace(s), Len(s))

\* s[-n:] for 0 < n < len(s)
Tail_(s, n) == SubSeq(s, Len(s) - n + 1, Len(s))

\* s[n:]
DropFirst(s, n) == SubSeq(s, n + 1, Len(s))

\* str.split("\n\n"): non-overlapping occurrences, left to right
RECURSIVE SplitBlank(_)
SplitBlank(s) ==
    LET hits == {i \in 1..(Len(s) - 1) : s[i] = "\n" /\ s[i + 1] = "\n"}
    IN  IF hits = {} THEN <<s>>
        ELSE LET i == Min(hits)
             IN  <<SubSeq(s, 1, i - 1)>> \o SplitBlank(SubSeq(s, i + 2, Len(s)))

RECURSIVE Flatten(_)
Flatten(ss) == IF ss = <<>> THEN <<>> ELSE ss[1] \o Flatten(Tail(ss))

Repeat(x, n) == [k \in 1..n |-> x]

\* sub in s (str.__contains__)
IsIn(sub, s) == \E i \in 0..(Len(s) - Len(sub)) : SubSeq(s, i + 1, i + Len(sub)) = sub

\* str.lower() on the letters the model uses
UpperLetters == <<"A", "B", "C", "D", "E", "F", "G", "H", "I", "J", "K", "L", "M",
                  "N", "O", "P", "Q", "R", "S", "T", "U", "V", "W", "X", "Y", "Z">>
LowerLetters == <<"a", "b", "c", "d", "e", "f", "g", "h", "i", "j", "k", "l", "m",
                  "n", "o", "p", "q", "r", "s", "t", "u", "v", "w", "x", "y", "z">>
LowerChar(c) ==
    IF \E i \in 1..26 : UpperLetters[i] = c
    THEN LowerLetters[CHOOSE i \in 1..26 : UpperLetters[i] = c]
    ELSE c
Lower(s) == [k \in 1..Len(s) |-> LowerChar(s[k])]

Digits == {"0", "1", "2", "3", "4", "5", "6", "7", "8", "9"}
IsLowerLetter(c) == \E i \in 1..26 : LowerLetters[i] = c
IsUpperLetter(c) == \E i \in 1..26 : UpperLetters[i] = c

\* str.split(): the maximal runs of non-whitespace characters
RECURSIVE SplitSpace(_)
SplitSpace(s) ==
    LET t == LStrip(s)
        stops == {i \in 1..Len(t) : IsSpace(t[i])}
    IN  IF t = <<>> THEN <<>>
        ELSE IF stops = {} THEN <<t>>
        ELSE <<SubSeq(t, 1, Min(stops) - 1)>> \o SplitSpace(SubSeq(t, Min(stops), Len(t)))

\* " ".join(parts)
RECURSIVE JoinSpace(_)
JoinSpace(parts) ==
    IF parts = <<>> THEN <<>>
    ELSE IF Len(parts) = 1 THEN parts[1]
    ELSE parts[1] \o <<" ">> \o JoinSpace(Tail(parts))

\* ------------------------------------------------------------------------
\* chunk_pages (app/services/pdf.py)
\* ------------------------------------------------------------------------
VARIABLES
    pages,               \* argument: sequence of <<page_num, page_text>>
    chunk_size,          \* argument
    overlap,             \* argument
    para_list,           \* flattened <<page_num, paragraph>> pairs
    pi,                  \* position of the for loop in para_list
    current_text,
    current_page_start,
    current_page_end,
    chunks,              \* returned list of [content, page_start, page_end]
    cpc,                 \* control point: "call", "loop", "flush", "done", "idle"
    \* history variables
    current_origin,      \* per character of current_text: its source page, NoPage for a joiner
    chunk_origin,        \* per chunk: current_origin cut like the content
    carried              \* per chunk: the overlap tail its buffer was seeded with

chunkVars == <<pages, chunk_size, overlap, para_list, pi, current_text,
               current_page_start, current_page_end, chunks, cpc,
               current_origin, chunk_origin, carried>>

\* match_party (app/services/notubiz.py), called from upsert_motion
VARIABLES
    notubiz_name,        \* argument: the label
    party_id,            \* the value returned
    mpc                  \* control point: "call", "done", "idle"

partyVars == <<notubiz_name, party_id, mpc>>

\* the party registry both matchers are given: sequence of [id, name, abbreviation]
VARIABLES db_parties

registryVars == <<db_parties>>

\* match_party_name (app/services/polls.py), called from fetch_and_store_polls
VARIABLES
    raw_name,            \* argument: the poll chart label
    matched_party_id,    \* the value returned
    fpc                  \* control point: "call", "done", "idle"

fuzzyVars == <<raw_name, matched_party_id, fpc>>

\* match_candidate (app/services/notubiz.py), called from upsert_motion
VARIABLES
    notubiz_person_name, \* argument notubiz_name: the submitter's name
    person_id,           \* argument: the Notubiz person id, or None
    db_candidates,       \* argument: sequence of [id, name]
    candidate_id,        \* the value returned
    kpc                  \* control point: "call", "done", "idle"

candidateVars == <<notubiz_person_name, person_id, db_candidates, candidate_id, kpc>>

\* _extract_field_period (app/services/polls.py), called from scrape_onderzoek_amsterdam
VARIABLES
    period_src,     \* history: the parts the text was written from
    period_text,    \* argument text: the methodology text
    fallback_year,  \* argument: the publication year, or None
    field_period,   \* the outcome: [raised, start, end]
    epc             \* control point: "call", "done", "idle"

periodVars == <<period_src, period_text, fallback_year, field_period, epc>>

\* _parse_results_from_values (app/services/polls.py), called from scrape_onderzoek_amsterdam
VARIABLES
    values,     \* argument: the list of chart rows
    row_i,      \* position of the for loop in values
    parsed,     \* the list being built
    parse_exc,  \* the exception that left the function, or "none"
    rpc         \* control point: "loop", "done", "raised", "idle"

resultsVars == <<values, row_i, parsed, parse_exc, rpc>>

\* _normalize (app/services/polls.py)
VARIABLES
    norm_in,       \* argument name
    norm_variant,  \* a respelling of name: other letter case or diacritics
    norm_out,      \* the results: [once, twice, variant]
    npc            \* control point: "call", "done", "idle"

normalizeVars == <<norm_in, norm_variant, norm_out, npc>>

\* clean_text (app/services/pdf.py)
VARIABLES
    raw_text,  \* argument text: the text pypdf extracted from one page
    cleaned,   \* the value returned
    tpc        \* control point: "call", "done", "idle"

cleanVars == <<raw_text, cleaned, tpc>>

\* _complete (app/services/llm.py)
VARIABLES
    llm_system,   \* argument system: "" or a system prompt
    llm_messages, \* the messages list sent with every call
    attempt,      \* number of loop iterations completed
    slept,        \* the delays passed to time.sleep, in order
    last_exc,
    llm_result,   \* what _complete gave its caller: [kind, value]
    lpc,          \* control point: "call", "loop", "done", "idle"
    \* history variable
    llm_log       \* the outcome of each litellm.completion call, in order

llmVars == <<llm_system, llm_messages, attempt, slept, last_exc, llm_result, lpc, llm_log>>

\* upsert_motion (scripts/fetch_motions.py) and the tables it writes
VARIABLES
    motions,              \* rows of the motions table; the id of a row is its position
    motion_parties,       \* rows of motion_parties, in insertion order
    motion_candidates,    \* rows of motion_candidates, in insertion order
    unmatched_parties,    \* Counter: label -> count
    unmatched_candidates, \* Counter: name -> count
    upserts,              \* number of upsert_motion calls made
    upc,                  \* control point: "ready" between calls, "idle"
    \* history variable
    last_parsed           \* per notubiz_item_id: the parsed dict of the latest call

motionVars == <<motions, motion_parties, motion_candidates, unmatched_parties,
                unmatched_candidates, upserts, upc, last_parsed>>

\* fetch_and_store_polls (app/services/polls.py) and the tables it writes
VARIABLES
    sources,       \* config["polling_sources"] with what each scraper call gives
    source_i,      \* position of the for loop in sources
    polls,         \* rows of the polls table; the id of a row is its position
    poll_results,  \* rows of poll_results, in insertion order
    party_cache,   \* per party id: [polled_seats, poll_updated_at]
    stored_polls,  \* ids of the polls inserted or updated by this call
    ppc,           \* control point: "ready", "loop", "returned", "idle"
    \* history variable
    stored_data    \* per entry of stored_polls: the data["results"] it was stored from

pollVars == <<sources, source_i, polls, poll_results, party_cache, stored_polls,
              ppc, stored_data>>

vars == <<chunkVars, partyVars, registryVars, fuzzyVars, candidateVars, periodVars,
          resultsVars, normalizeVars, cleanVars, llmVars, motionVars, pollVars>>

\* a function that is not running in the specification at hand
ChunkIdle ==
    /\ pages = <<>> /\ chunk_size = 0 /\ overlap = 0 /\ para_list = <<>> /\ pi = 0
    /\ current_text = <<>> /\ current_page_start = 0 /\ current_page_end = 0
    /\ chunks = <<>> /\ cpc = "idle"
    /\ current_origin = <<>> /\ chunk_origin = <<>> /\ carried = <<>>
PartyIdle ==
    /\ notubiz_name = <<>> /\ party_id = 0 /\ mpc = "idle"
RegistryIdle == db_parties = <<>>
FuzzyIdle ==
    /\ raw_name = <<>> /\ matched_party_id = 0 /\ fpc = "idle"

CandidateIdle ==
    /\ notubiz_person_name = <<>> /\ person_id = 0 /\ db_candidates = <<>>
    /\ candidate_id = 0 /\ kpc = "idle"

CleanIdle == raw_text = <<>> /\ cleaned = <<>> /\ tpc = "idle"

NormalizeIdle ==
    norm_in = <<>> /\ norm_variant = <<>> /\ norm_out = <<>> /\ npc = "idle"

ResultsIdle ==
    /\ values = <<>> /\ row_i = 0 /\ parsed = <<>> /\ parse_exc = "none" /\ rpc = "idle"

PeriodIdle ==
    /\ period_src = <<>> /\ period_text = <<>> /\ fallback_year = 0
    /\ field_period = <<>> /\ epc = "idle"

LlmIdle ==
    /\ llm_system = <<>> /\ llm_messages = <<>> /\ attempt = 0 /\ slept = <<>>
    /\ last_exc = <<>> /\ llm_result = <<>> /\ lpc = "idle" /\ llm_log = <<>>

MotionIdle ==
    /\ motions = <<>> /\ motion_parties = <<>> /\ motion_candidates = <<>>
    /\ unmatched_parties = <<>> /\ unmatched_candidates = <<>> /\ upserts = 0
    /\ upc = "idle" /\ last_parsed = <<>>

PollsIdle ==
    /\ sources = <<>> /\ source_i = 0 /\ polls = <<>> /\ poll_results = <<>>
    /\ party_cache = <<>> /\ stored_polls = <<>> /\ ppc = "idle"
    /\ stored_data = <<>>

\* the candidate matcher's own variables when only db_candidates is in use
CandidateCallIdle ==
    /\ notubiz_person_name = <<>> /\ person_id = 0 /\ candidate_id = 0 /\ kpc = "idle"

notChunk ==
    <<partyVars, registryVars, fuzzyVars, candidateVars, periodVars, resultsVars,
      normalizeVars, cleanVars,
      llmVars, motionVars, pollVars>>
notParty ==
    <<chunkVars, fuzzyVars, candidateVars, periodVars, resultsVars,
      normalizeVars, cleanVars,
      llmVars, motionVars, pollVars>>
notFuzzy ==
    <<chunkVars, partyVars, candidateVars, periodVars, resultsVars,
      normalizeVars, cleanVars,
      llmVars, motionVars, pollVars>>
notCandidate ==
    <<chunkVars, partyVars, registryVars, fuzzyVars, periodVars, resultsVars,
      normalizeVars, cleanVars,
      llmVars, motionVars, pollVars>>
notResults ==
    <<chunkVars, partyVars, registryVars, fuzzyVars, candidateVars, periodVars,
      normalizeVars, cleanVars,
      llmVars, motionVars, pollVars>>
notNormalize ==
    <<chunkVars, partyVars, registryVars, fuzzyVars, candidateVars, periodVars,
      resultsVars, cleanVars,
      llmVars, motionVars, pollVars>>
notClean ==
    <<chunkVars, partyVars, registryVars, fuzzyVars, candidateVars, periodVars,
      resultsVars, normalizeVars,
      llmVars, motionVars, pollVars>>
notPeriod ==
    <<chunkVars, partyVars, registryVars, fuzzyVars, candidateVars, resultsVars,
      normalizeVars, cleanVars,
      llmVars, motionVars, pollVars>>
OthersIdleForChunk ==
    PartyIdle /\ RegistryIdle /\ FuzzyIdle /\ CandidateIdle /\ PeriodIdle /\ ResultsIdle
    /\ NormalizeIdle /\ CleanIdle
    /\ LlmIdle /\ MotionIdle /\ PollsIdle
OthersIdleForParty ==
    ChunkIdle /\ FuzzyIdle /\ CandidateIdle /\ PeriodIdle /\ ResultsIdle
    /\ NormalizeIdle /\ CleanIdle
    /\ LlmIdle /\ MotionIdle /\ PollsIdle
OthersIdleForFuzzy ==
    ChunkIdle /\ PartyIdle /\ CandidateIdle /\ PeriodIdle /\ ResultsIdle
    /\ NormalizeIdle /\ CleanIdle
    /\ LlmIdle /\ MotionIdle /\ PollsIdle
OthersIdleForCandidate ==
    ChunkIdle /\ PartyIdle /\ RegistryIdle /\ FuzzyIdle /\ PeriodIdle /\ ResultsIdle
    /\ NormalizeIdle /\ CleanIdle
    /\ LlmIdle /\ MotionIdle /\ PollsIdle
OthersIdleForNormalize ==
    ChunkIdle /\ PartyIdle /\ RegistryIdle /\ FuzzyIdle /\ CandidateIdle /\ PeriodIdle
    /\ ResultsIdle /\ CleanIdle
    /\ LlmIdle /\ MotionIdle /\ PollsIdle
OthersIdleForClean ==
    ChunkIdle /\ PartyIdle /\ RegistryIdle /\ FuzzyIdle /\ CandidateIdle /\ PeriodIdle
    /\ ResultsIdle /\ NormalizeIdle
    /\ LlmIdle /\ MotionIdle /\ PollsIdle
OthersIdleForPeriod ==
    ChunkIdle /\ PartyIdle /\ RegistryIdle /\ FuzzyIdle /\ CandidateIdle /\ ResultsIdle
    /\ NormalizeIdle /\ CleanIdle
    /\ LlmIdle /\ MotionIdle /\ PollsIdle
OthersIdleForResults ==
    ChunkIdle /\ PartyIdle /\ RegistryIdle /\ FuzzyIdle /\ CandidateIdle /\ PeriodIdle
    /\ NormalizeIdle /\ CleanIdle
    /\ LlmIdle /\ MotionIdle /\ PollsIdle

notLlm ==
    <<chunkVars, partyVars, registryVars, fuzzyVars, candidateVars, periodVars,
      resultsVars, normalizeVars, cleanVars, motionVars, pollVars>>
notMotion ==
    <<chunkVars, partyVars, registryVars, fuzzyVars, candidateVars, periodVars,
      resultsVars, normalizeVars, cleanVars, llmVars, pollVars>>
notPolls ==
    <<chunkVars, partyVars, registryVars, fuzzyVars, candidateVars, periodVars,
      resultsVars, normalizeVars, cleanVars, llmVars, motionVars>>
OthersIdleForLlm ==
    ChunkIdle /\ PartyIdle /\ RegistryIdle /\ FuzzyIdle /\ CandidateIdle /\ PeriodIdle
    /\ ResultsIdle /\ NormalizeIdle /\ CleanIdle /\ MotionIdle /\ PollsIdle
OthersIdleForMotion ==
    ChunkIdle /\ PartyIdle /\ FuzzyIdle /\ CandidateCallIdle /\ PeriodIdle
    /\ ResultsIdle /\ NormalizeIdle /\ CleanIdle /\ LlmIdle /\ PollsIdle
OthersIdleForPolls ==
    ChunkIdle /\ PartyIdle /\ FuzzyIdle /\ CandidateIdle /\ PeriodIdle
    /\ ResultsIdle /\ NormalizeIdle /\ CleanIdle /\ LlmIdle /\ MotionIdle

NoPage == 0 - 1
None == 0 - 1

\* page texts the model feeds to chunk_pages
PageTexts == {
    <<"a", "b", "c", "d", "e">>,
    <<"f">>,
    <<"a", "b", "\n", "\n", "c">>,
    <<" ", "a", "\n", "\n", "\n", "\n", "b", "\n">>,
    <<"\n", "\n", " ">>,
    <<"a", " ", " ", "b", "\n", "\n", "c", "\n", "d">>
}

\* page numbers: strictly increasing and 1-based as extract_pages_from_pdf
\* numbers them (blank pages are skipped, so gaps occur), or the single
\* page 0 chunk_text passes
MaxPageNo == MaxPages + 1
PageNumberings ==
    {<<0>>} \cup
    {s \in UNION {[1..n -> 1..MaxPageNo] : n \in 1..MaxPages} :
        \A k \in 1..(Len(s) - 1) : s[k] < s[k + 1]}

PageLists ==
    UNION {{[k \in 1..Len(nums) |-> <<nums[k], txt[k]>>] : txt \in [1..Len(nums) -> PageTexts]} :
              nums \in PageNumberings}

\* lines 109-114: the non-empty stripped paragraphs of one page
ParasOfPage(page) ==
    LET parts == SplitBlank(page[2])
        keep == SelectSeq([k \in 1..Len(parts) |-> Strip(parts[k])], LAMBDA p : p # <<>>)
    IN  [k \in 1..Len(keep) |-> <<page[1], keep[k]>>]

ParaList(pgs) == Flatten([k \in 1..Len(pgs) |-> ParasOfPage(pgs[k])])

\* line 125 with len(current_text) left out of the sum
MustCloseIgnoresBuffer(text, para, size) == text # <<>> /\ Len(para) + 2 > size

\* line 125 without the 2 characters of the joiner
MustCloseWithoutJoiner(text, para, size) == text # <<>> /\ Len(text) + Len(para) > size

\* line 125: the buffer is closed before this paragraph is added
MustClose(text, para, size) == text # <<>> /\ Len(text) + Len(para) + 2 > size

\* line 133 slicing current_text[:overlap] instead of current_text[-overlap:]
OverlapHead(text, ov) == IF ov > 0 /\ Len(text) > ov THEN SubSeq(text, 1, ov) ELSE <<>>

\* line 132 with len(current_text) >= overlap
OverlapTailInclusive(text, ov) == IF ov > 0 /\ Len(text) >= ov THEN Tail_(text, ov) ELSE <<>>

\* lines 132-135: the text the next buffer starts with
OverlapTail(text, ov) == IF ov > 0 /\ Len(text) > ov THEN Tail_(text, ov) ELSE <<>>

\* line 133 without the "\n\n" joiner
SeedTextNoJoiner(text, para, ov) ==
    IF OverlapTail(text, ov) # <<>> THEN OverlapTail(text, ov) \o para ELSE para

SeedText(text, para, ov) ==
    IF OverlapTail(text, ov) # <<>>
    THEN OverlapTail(text, ov) \o <<"\n", "\n">> \o para
    ELSE para

\* lines 137-138 with one of the two assignments missing
KeepPageStart(page_num, old_start) == old_start
KeepPageEnd(page_num, old_end) == old_end

\* lines 137-138: the page range a new buffer starts with
SeedPageStart(page_num, old_start) == page_num
SeedPageEnd(page_num, old_end) == page_num

\* lines 126-130, 147-151
MakeChunk(text, ps, pe) == [content |-> Strip(text), page_start |-> ps, page_end |-> pe]

CutLikeContent(text, origin) == SubSeq(origin, FirstNonSpace(text), LastNonSpace(text))

ChunkInit ==
    /\ pages \in PageLists
    /\ chunk_size \in 1..MaxChunkSize
    /\ overlap \in 0..MaxOverlap
    /\ para_list = <<>>
    /\ pi = 0
    /\ current_text = <<>>
    /\ current_page_start = 0
    /\ current_page_end = 0
    /\ chunks = <<>>
    /\ cpc = "call"
    /\ current_origin = <<>>
    /\ chunk_origin = <<>>
    /\ carried = <<>>
    /\ OthersIdleForChunk

\* lines 109-122
ChunkFlattenPages ==
    /\ cpc = "call"
    /\ para_list' = ParaList(pages)
    /\ IF para_list' = <<>>
       THEN /\ cpc' = "done"
            /\ UNCHANGED <<current_page_start, current_page_end>>
       ELSE /\ cpc' = "loop"
            /\ current_page_start' = para_list'[1][1]
            /\ current_page_end' = para_list'[1][1]
    /\ pi' = 1
    /\ UNCHANGED <<pages, chunk_size, overlap, current_text, chunks,
                   current_origin, chunk_origin, carried>>
    /\ UNCHANGED notChunk

\* lines 124-138: the paragraph does not fit, the buffer is closed and reseeded
ChunkClose ==
    /\ cpc = "loop"
    /\ pi <= Len(para_list)
    /\ LET page_num == para_list[pi][1]
           para == para_list[pi][2]
       IN  /\ MustClose(current_text, para, chunk_size)
           /\ chunks' = Append(chunks,
                  MakeChunk(current_text, current_page_start, current_page_end))
           /\ chunk_origin' = Append(chunk_origin,
                  CutLikeContent(current_text, current_origin))
           /\ current_text' = SeedText(current_text, para, overlap)
           /\ current_origin' =
                  (IF OverlapTail(current_text, overlap) # <<>>
                   THEN Tail_(current_origin, overlap) \o <<NoPage, NoPage>>
                   ELSE <<>>) \o Repeat(page_num, Len(para))
           /\ carried' = Append(carried, OverlapTail(current_text, overlap))
           /\ current_page_start' = SeedPageStart(page_num, current_page_start)
           /\ current_page_end' = SeedPageEnd(page_num, current_page_end)
    /\ pi' = pi + 1
    /\ UNCHANGED <<pages, chunk_size, overlap, para_list, cpc>>
    /\ UNCHANGED notChunk

\* lines 139-144: the paragraph is appended to the buffer
ChunkAppend ==
    /\ cpc = "loop"
    /\ pi <= Len(para_list)
    /\ LET page_num == para_list[pi][1]
           para == para_list[pi][2]
       IN  /\ ~MustClose(current_text, para, chunk_size)
           /\ IF current_text # <<>>
              THEN /\ current_text' = current_text \o <<"\n", "\n">> \o para
                   /\ current_origin' =
                          current_origin \o <<NoPage, NoPage>> \o Repeat(page_num, Len(para))
                   /\ UNCHANGED carried
              ELSE /\ current_text' = para
                   /\ current_origin' = Repeat(page_num, Len(para))
                   /\ carried' = Append(carried, <<>>)
           /\ current_page_end' = page_num
    /\ pi' = pi + 1
    /\ UNCHANGED <<pages, chunk_size, overlap, para_list, cpc, chunks,
                   current_page_start, chunk_origin>>
    /\ UNCHANGED notChunk

\* lines 146-153
ChunkFlush ==
    /\ cpc = "loop"
    /\ pi > Len(para_list)
    /\ IF Strip(current_text) # <<>>
       THEN /\ chunks' = Append(chunks,
                   MakeChunk(current_text, current_page_start, current_page_end))
            /\ chunk_origin' = Append(chunk_origin,
                   CutLikeContent(current_text, current_origin))
       ELSE UNCHANGED <<chunks, chunk_origin>>
    /\ cpc' = "done"
    /\ UNCHANGED <<pages, chunk_size, overlap, para_list, pi, current_text,
                   current_page_start, current_page_end, current_origin, carried>>
    /\ UNCHANGED notChunk

ChunkNext == ChunkFlattenPages \/ ChunkClose \/ ChunkAppend \/ ChunkFlush

SpecChunk == ChunkInit /\ [][ChunkNext]_vars

\* ------------------------------------------------------------------------
\* Properties of chunk_pages
\* ------------------------------------------------------------------------
IsSuffix(t, s) == Len(t) <= Len(s) /\ Tail_(s, Len(t)) = t
IsPrefix(t, s) == Len(t) <= Len(s) /\ SubSeq(s, 1, Len(t)) = t

ChunkDone == cpc = "done"

\* length of the overlap prefix at the head of chunk k's content: the carried
\* tail without its leading whitespace (removed by strip) and the joiner
OverlapPrefixLen(k) == IF carried[k] = <<>> THEN 0 ELSE Len(LStrip(carried[k])) + 2

\* chunk k's content without its overlap prefix, and the paragraphs in it
FreshText(k) == DropFirst(chunks[k].content, OverlapPrefixLen(k))
FreshParas(k) == SplitBlank(FreshText(k))

Paragraphs(pgs) == [k \in 1..Len(ParaList(pgs)) |-> ParaList(pgs)[k][2]]

\* C1: after chunk_pages returns, the chunks, each without the overlap prefix
\* carried over from the previous chunk, concatenate to the sequence of the
\* non-empty trimmed paragraphs of the pages: every paragraph occurs exactly
\* once as fresh text, whole and in input order.
C1_Reconstructs ==
    ChunkDone =>
        /\ Len(carried) = Len(chunks)
        /\ Flatten([k \in 1..Len(chunks) |-> FreshParas(k)]) = Paragraphs(pages)

C1_Witness ==
    /\ ChunkDone
    /\ Len(chunks) >= 3
    /\ \E k \in 1..Len(chunks) : carried[k] # <<>> /\ Len(FreshParas(k)) >= 2

InRange(k, pg) == chunks[k].page_start <= pg /\ pg <= chunks[k].page_end

\* C3 as claimed: every page a character of a chunk's content comes from,
\* the carried overlap included, lies within [page_start, page_end].
C3_AllTextInRange ==
    ChunkDone =>
        \A k \in 1..Len(chunks) : \A j \in 1..Len(chunk_origin[k]) :
            chunk_origin[k][j] # NoPage => InRange(k, chunk_origin[k][j])

\* C3 amended: [page_start, page_end] is the range of the pages of the
\* chunk's fresh paragraphs, from the page of the first to the page of the
\* last; the overlap prefix is not covered by it.
C3_FreshTextInRange ==
    ChunkDone =>
        \A k \in 1..Len(chunks) :
            /\ Len(chunk_origin[k]) = Len(chunks[k].content)
            /\ chunk_origin[k][OverlapPrefixLen(k) + 1] = chunks[k].page_start
            /\ chunk_origin[k][Len(chunk_origin[k])] = chunks[k].page_end
            /\ \A j \in (OverlapPrefixLen(k) + 1)..Len(chunk_origin[k]) :
                   chunk_origin[k][j] # NoPage => InRange(k, chunk_origin[k][j])

C3_Witness ==
    /\ ChunkDone
    /\ \E k \in 2..Len(chunks) :
           /\ carried[k] # <<>>
           /\ chunk_origin[k][1] # NoPage
           /\ chunk_origin[k][1] < chunks[k].page_start

Oversized(p) == Len(p) > chunk_size

\* C4 as claimed: the chunk holding a paragraph longer than chunk_size
\* consists of that paragraph and nothing else.
C4_OversizedAlone ==
    ChunkDone =>
        \A k \in 1..Len(chunks) : \A n \in 1..Len(FreshParas(k)) :
            Oversized(FreshParas(k)[n]) => chunks[k].content = FreshParas(k)[n]

\* C4 amended: a paragraph longer than chunk_size is the only fresh
\* paragraph of its chunk, whole; in front of it the chunk holds nothing but
\* the overlap tail of the previous chunk and the joiner (nothing when the
\* previous buffer was not longer than overlap, or overlap is 0).
C4_OversizedOnlyFresh ==
    ChunkDone =>
        \A k \in 1..Len(chunks) : \A n \in 1..Len(FreshParas(k)) :
            Oversized(FreshParas(k)[n]) =>
                /\ Len(FreshParas(k)) = 1
                /\ chunks[k].content =
                       (IF carried[k] = <<>> THEN <<>>
                        ELSE LStrip(carried[k]) \o <<"\n", "\n">>) \o FreshParas(k)[n]
                /\ overlap = 0 => chunks[k].content = FreshParas(k)[n]

C4_Witness ==
    /\ ChunkDone
    /\ \E k \in 2..Len(chunks) :
           /\ Oversized(FreshParas(k)[1])
           /\ carried[k] # <<>>
           /\ k < Len(chunks)

\* The buffer of chunk k was carried[k], the joiner and FreshText(k): the
\* tail carried into chunk k+1 reaches into carried[k] when it is longer than
\* the fresh text and the joiner.
ReachesOldOverlap(k) ==
    /\ carried[k] # <<>>
    /\ carried[k + 1] # <<>>
    /\ Len(carried[k + 1]) > Len(FreshText(k)) + 2

\* C5 as claimed: the overlap at the start of a chunk is taken from the
\* fresh text of the preceding chunk only, never from text that chunk itself
\* received as overlap from an older chunk.
C5_OverlapFromFreshOnly ==
    ChunkDone => \A k \in 1..(Len(chunks) - 1) : ~ReachesOldOverlap(k)

\* C5 amended: the overlap at the start of a chunk is the last `overlap`
\* characters of the preceding chunk's buffer (leading whitespace trimmed),
\* a suffix of the preceding chunk's content; it reaches no further back
\* than that chunk, but may include the overlap that chunk received.
C5_OverlapFromPrevChunk ==
    ChunkDone =>
        \A k \in 1..(Len(chunks) - 1) :
            carried[k + 1] # <<>> =>
                /\ Len(carried[k + 1]) = overlap
                /\ IsSuffix(LStrip(carried[k + 1]), chunks[k].content)
                /\ IsPrefix(LStrip(carried[k + 1]) \o <<"\n", "\n">>, chunks[k + 1].content)

C5_Witness ==
    /\ ChunkDone
    /\ \E k \in 2..(Len(chunks) - 1) : ReachesOldOverlap(k)

\* ------------------------------------------------------------------------
\* match_party (app/services/notubiz.py)
\* ------------------------------------------------------------------------

\* lines 178-194: <<key, target>> entries
PARTY_ALIASES == {
    <<<<"g", "r", "o", "e", "n", "l", "i", "n", "k", "s">>,
      <<"G", "r", "o", "e", "n", "L", "i", "n", "k", "s">>>>,
    <<<<"p", "v", "d", "a">>,
      <<"P", "v", "d", "A">>>>,
    <<<<"p", "a", "r", "t", "i", "j", " ", "v", "a", "n", " ", "d", "e", " ", "a", "r", "b", "e", "i", "d">>,
      <<"P", "v", "d", "A">>>>,
    <<<<"v", "v", "d">>,
      <<"V", "V", "D">>>>,
    <<<<"d", "6", "6">>,
      <<"D", "6", "6">>>>,
    <<<<"p", "a", "r", "t", "i", "j", " ", "v", "o", "o", "r", " ", "d", "e", " ", "d", "i", "e", "r", "e", "n">>,
      <<"P", "v", "d", "D">>>>,
    <<<<"p", "v", "d", "d">>,
      <<"P", "v", "d", "D">>>>,
    <<<<"b", "i", "j", "1">>,
      <<"B", "I", "J", "1">>>>,
    <<<<"v", "o", "l", "t">>,
      <<"V", "O", "L", "T">>>>,
    <<<<"c", "d", "a">>,
      <<"C", "D", "A">>>>,
    <<<<"s", "p">>,
      <<"S", "P">>>>,
    <<<<"j", "a", "2", "1">>,
      <<"J", "A", "2", "1">>>>,
    <<<<"d", "e", "n", "k">>,
      <<"D", "E", "N", "K">>>>,
    <<<<"f", "o", "r", "u", "m", " ", "v", "o", "o", "r", " ", "d", "e", "m", "o", "c", "r", "a", "t", "i", "e">>,
      <<"F", "v", "D">>>>,
    <<<<"f", "v", "d">>,
      <<"F", "v", "D">>>>
}

\* PARTY_ALIASES.get(key) is not None, and its value
AliasHas(key) == \E e \in PARTY_ALIASES : e[1] = key
AliasGet(key) == (CHOOSE e \in PARTY_ALIASES : e[1] = key)[2]

\* line 208: the exact test on one party
ExactMatch(x, party) == x = Lower(party.name) \/ x = Lower(party.abbreviation)

\* lines 223-226: the substring test on one party
SubstringMatch(x, party) ==
    \/ IsIn(Lower(party.name), x) \/ IsIn(x, Lower(party.name))
    \/ IsIn(Lower(party.abbreviation), x) \/ IsIn(x, Lower(party.abbreviation))

\* lines 207-209: the first party equal to x, from position k on
RECURSIVE ExactLoop(_, _, _)
ExactLoop(x, parties, k) ==
    IF k > Len(parties) THEN None
    ELSE IF ExactMatch(x, parties[k]) THEN parties[k].id
    ELSE ExactLoop(x, parties, k + 1)

\* lines 222-226
RECURSIVE SubstringLoop(_, _, _)
SubstringLoop(x, parties, k) ==
    IF k > Len(parties) THEN None
    ELSE IF SubstringMatch(x, parties[k]) THEN parties[k].id
    ELSE SubstringLoop(x, parties, k + 1)

\* lines 216-217 comparing the alias target without lower-casing it
AliasTierNoLower(x, parties) ==
    IF ~(AliasHas(x) /\ AliasGet(x) # <<>>) THEN None
    ELSE ExactLoop(AliasGet(x), parties, 1)

\* lines 212-219: the alias tier
AliasTier(x, parties) ==
    IF ~(AliasHas(x) /\ AliasGet(x) # <<>>) THEN None
    ELSE ExactLoop(Lower(AliasGet(x)), parties, 1)

\* one loop over the parties that tries every tier on each party in turn
RECURSIVE SinglePassLoop(_, _, _)
SinglePassLoop(x, parties, k) ==
    IF k > Len(parties) THEN None
    ELSE IF \/ ExactMatch(x, parties[k])
            \/ AliasTier(x, <<parties[k]>>) # None
            \/ SubstringMatch(x, parties[k])
         THEN parties[k].id
         ELSE SinglePassLoop(x, parties, k + 1)
MatchPartySinglePass(name, parties) == SinglePassLoop(Lower(Strip(name)), parties, 1)

\* lines 197-228
match_party(name, parties) ==
    LET x == Lower(Strip(name))
    IN  IF ExactLoop(x, parties, 1) # None THEN ExactLoop(x, parties, 1)
        ELSE IF AliasTier(x, parties) # None THEN AliasTier(x, parties)
        ELSE SubstringLoop(x, parties, 1)

\* the party registry: rows of the parties table of one election
PartyPool == {
    [id |-> 1, name |-> <<"P", "a", "r", "t", "i", "j", " ", "v", "a", "n", " ", "d", "e", " ", "A", "r", "b", "e", "i", "d">>,
     abbreviation |-> <<"P", "A">>],
    [id |-> 2, name |-> <<"P", "v", "d", "A">>,
     abbreviation |-> <<>>],
    [id |-> 3, name |-> <<"G", "r", "o", "e", "n", "L", "i", "n", "k", "s">>,
     abbreviation |-> <<"G", "L">>],
    [id |-> 4, name |-> <<"P", "a", "r", "t", "i", "j", " ", "v", "o", "o", "r", " ", "d", "e", " ", "D", "i", "e", "r", "e", "n">>,
     abbreviation |-> <<"P", "v", "d", "D">>],
    [id |-> 5, name |-> <<"V", "o", "l", "t", " ", "A", "m", "s", "t", "e", "r", "d", "a", "m">>,
     abbreviation |-> <<"V", "O", "L", "T">>],
    [id |-> 6, name |-> <<"F", "o", "r", "u", "m">>,
     abbreviation |-> <<"F", "v", "D">>],
    [id |-> 7, name |-> <<"D", "e", "m", "o", "c", "r", "a", "t", "e", "n">>,
     abbreviation |-> <<"D", "E", "M", "O">>]
}

\* lists of distinct rows, in any order (the query has no ORDER BY)
PartyLists ==
    {s \in UNION {[1..n -> PartyPool] : n \in 0..MaxParties} :
        \A i, j \in 1..Len(s) : i # j => s[i].id # s[j].id}

\* labels given to match_party: the keys of the alias table and other names
PartyLabels == {e[1] : e \in PARTY_ALIASES} \cup {
    <<" ", "P", "v", "d", "A", " ">>,
    <<"P", "a", "r", "t", "i", "j", " ", "v", "a", "n", " ", "d", "e", " ", "A", "r", "b", "e", "i", "d">>,
    <<"G", "R", "O", "E", "N", "L", "I", "N", "K", "S">>,
    <<"g", "l">>,
    <<"l", "i", "n", "k", "s">>,
    <<"G", "r", "o", "e", "n", "L", "i", "n", "k", "s", "-", "P", "v", "d", "A">>,
    <<>>,
    <<"x", "y", "z">>,
    <<"V", "o", "l", "t">>,
    <<"P", "v", "d", "D", "\n">>,
    <<"P", "a", "r", "t", "i", "j", " ", "v", "o", "o", "r", " ", "d", "e", " ", "D", "i", "e", "r", "e", "n">>,
    <<"s", "p">>,
    <<"F", "o", "r", "u", "m", " ", "v", "o", "o", "r", " ", "D", "e", "m", "o", "c", "r", "a", "t", "i", "e">>,
    <<"D", "6", "6">>
}

PartyInit ==
    /\ notubiz_name \in PartyLabels
    /\ db_parties \in PartyLists
    /\ party_id = None
    /\ mpc = "call"
    /\ OthersIdleForParty

\* fetch_motions.py line 99: party_id = match_party(p["name"], db_parties)
MatchPartyCall ==
    /\ mpc = "call"
    /\ party_id' = match_party(notubiz_name, db_parties)
    /\ mpc' = "done"
    /\ UNCHANGED <<notubiz_name, db_parties>>
    /\ UNCHANGED notParty

PartyNext == MatchPartyCall

SpecParty == PartyInit /\ [][PartyNext]_vars

\* ------------------------------------------------------------------------
\* Properties of match_party
\* ------------------------------------------------------------------------
PartyDone == mpc = "done"

\* the label as match_party compares it (line 205)
Label == Lower(Strip(notubiz_name))

\* the three tiers as relations between the label and one party
Tier1(p) == Label = Lower(p.name) \/ Label = Lower(p.abbreviation)
Tier2(p) ==
    \E e \in PARTY_ALIASES :
        /\ e[1] = Label
        /\ (Lower(e[2]) = Lower(p.name) \/ Lower(e[2]) = Lower(p.abbreviation))
Tier3(p) ==
    \E t \in {Lower(p.name), Lower(p.abbreviation)} : IsIn(t, Label) \/ IsIn(Label, t)

SomeParty(T(_)) == \E k \in 1..Len(db_parties) : T(db_parties[k])
FirstParty(T(_)) ==
    db_parties[Min({k \in 1..Len(db_parties) : T(db_parties[k])})].id

\* C6: match_party returns the first party, in the order supplied, of the
\* highest-priority tier (exact, alias, substring) that any party of the
\* list satisfies, and None when no party satisfies any tier.
C6_TieredFirstMatch ==
    PartyDone =>
        party_id = (IF SomeParty(Tier1) THEN FirstParty(Tier1)
                    ELSE IF SomeParty(Tier2) THEN FirstParty(Tier2)
                    ELSE IF SomeParty(Tier3) THEN FirstParty(Tier3)
                    ELSE None)

\* a later party wins by a higher tier although an earlier party satisfies a
\* lower one
C6_Witness ==
    /\ PartyDone
    /\ Len(db_parties) >= 2
    /\ ~SomeParty(Tier1)
    /\ Tier2(db_parties[2]) /\ ~Tier2(db_parties[1]) /\ Tier3(db_parties[1])
    /\ party_id = db_parties[2].id

\* the label is a key of the alias table and some party equals its target
AliasCase(e) ==
    /\ e[1] = Label
    /\ \E k \in 1..Len(db_parties) : ExactMatch(Lower(e[2]), db_parties[k])

\* C7 as claimed: for an alias key whose target equals some party's name or
\* abbreviation, match_party(key) and match_party(target) return the same id.
C7_AliasSameAsTarget ==
    PartyDone =>
        \A e \in PARTY_ALIASES :
            AliasCase(e) => party_id = match_party(e[2], db_parties)

\* C7 amended: the same, unless a party's own name or abbreviation equals
\* the key; then the first such party is returned.
C7_AliasSameUnlessExact ==
    PartyDone =>
        \A e \in PARTY_ALIASES :
            AliasCase(e) =>
                party_id = (IF SomeParty(Tier1) THEN FirstParty(Tier1)
                            ELSE match_party(e[2], db_parties))

\* the alias tier decides: the key itself equals no party
C7_Witness ==
    /\ PartyDone
    /\ \E e \in PARTY_ALIASES :
           /\ AliasCase(e)
           /\ ~SomeParty(Tier1)
           /\ Lower(e[2]) # e[1]
           /\ party_id = match_party(e[2], db_parties)
           /\ party_id # None

\* ------------------------------------------------------------------------
\* match_party_name (app/services/polls.py)
\* ------------------------------------------------------------------------

\* A precomposed accented letter is one character with a name of its own;
\* the combining marks are the characters of category Mn.
CombiningMarks == {"COMBINING ACUTE", "COMBINING DIAERESIS"}
Decompositions == {
    <<"e-acute", <<"e", "COMBINING ACUTE">>>>,
    <<"E-acute", <<"E", "COMBINING ACUTE">>>>,
    <<"o-diaeresis", <<"o", "COMBINING DIAERESIS">>>>,
    <<"O-diaeresis", <<"O", "COMBINING DIAERESIS">>>>
}

\* line 34: unicodedata.normalize("NFD", name)
NFDChar(c) ==
    IF \E e \in Decompositions : e[1] = c
    THEN (CHOOSE e \in Decompositions : e[1] = c)[2]
    ELSE <<c>>
NFD(s) == Flatten([k \in 1..Len(s) |-> NFDChar(s[k])])

\* line 29: a character _PUNCT_RE leaves in place
KeptByPunctRe(c) == IsLowerLetter(c) \/ c \in Digits \/ IsSpace(c)

\* lines 32-38 without the lower-casing of line 36
NormalizeKeepingCase(name) ==
    LET nfd == NFD(name)
        no_marks == SelectSeq(nfd, LAMBDA c : c \notin CombiningMarks)
        no_punct == SelectSeq(no_marks, KeptByPunctRe)
    IN  JoinSpace(SplitSpace(no_punct))

\* lines 32-38
_normalize(name) ==
    LET nfd == NFD(name)
        no_marks == SelectSeq(nfd, LAMBDA c : c \notin CombiningMarks)
        lowered == Lower(no_marks)
        no_punct == SelectSeq(lowered, KeptByPunctRe)
    IN  JoinSpace(SplitSpace(no_punct))

\* difflib.SequenceMatcher: the length of the common run of a and b that
\* starts at a[i], b[j] and stays within a[..ahi], b[..bhi]
RECURSIVE RunLength(_, _, _, _, _, _)
RunLength(a, b, i, j, ahi, bhi) ==
    IF i > ahi \/ j > bhi THEN 0
    ELSE IF a[i] # b[j] THEN 0
    ELSE 1 + RunLength(a, b, i + 1, j + 1, ahi, bhi)

\* SequenceMatcher.find_longest_match(alo, ahi, blo, bhi) without junk: the
\* longest common block <<i, j, size>>, the one starting earliest in a and,
\* among those, earliest in b
FindLongestMatch(a, b, alo, ahi, blo, bhi) ==
    LET starts == {ij \in (alo..ahi) \X (blo..bhi) : a[ij[1]] = b[ij[2]]}
    IN  IF starts = {} THEN <<alo, blo, 0>>
        ELSE LET size == Max({RunLength(a, b, ij[1], ij[2], ahi, bhi) : ij \in starts})
                 longest == {ij \in starts : RunLength(a, b, ij[1], ij[2], ahi, bhi) = size}
                 i == Min({ij[1] : ij \in longest})
                 j == Min({ij[2] : ij \in {x \in longest : x[1] = i}})
             IN  <<i, j, size>>

\* SequenceMatcher.get_matching_blocks(): the total size of the blocks found
\* by splitting around the longest match, left and right
RECURSIVE MatchingSize(_, _, _, _, _, _)
MatchingSize(a, b, alo, ahi, blo, bhi) ==
    IF alo > ahi \/ blo > bhi THEN 0
    ELSE LET m == FindLongestMatch(a, b, alo, ahi, blo, bhi)
         IN  IF m[3] = 0 THEN 0
             ELSE m[3] + MatchingSize(a, b, alo, m[1] - 1, blo, m[2] - 1)
                       + MatchingSize(a, b, m[1] + m[3], ahi, m[2] + m[3], bhi)

\* lines 41-42: SequenceMatcher(None, a, b).ratio() as the fraction <<n, d>>:
\* 2.0 * matches / (len(a) + len(b)), and 1.0 for two empty strings
_similarity(a, b) ==
    IF Len(a) + Len(b) = 0 THEN <<1, 1>>
    ELSE <<2 * MatchingSize(a, b, 1, Len(a), 1, Len(b)), Len(a) + Len(b)>>

\* comparison of two fractions with positive denominators
FracLess(x, y) == x[1] * y[2] < y[1] * x[2]
FracLeq(x, y) == x[1] * y[2] <= y[1] * x[2]

\* line 53 with >= in place of >
ScoreNotWorse(score, best_score) == FracLeq(best_score, score)

\* line 53: score > best_score
ScoreBetter(score, best_score) == FracLess(best_score, score)

\* line 59 with a threshold of 0.80
MeetsThreshold80(best_score) == FracLeq(<<80, 100>>, best_score)

\* line 59: best_score >= 0.85
MeetsThreshold(best_score) == FracLeq(<<85, 100>>, best_score)

\* lines 50-55: the loops over the parties and over [name, abbreviation],
\* from party k, candidate string c on; best is <<best_id, best_score>>
RECURSIVE BestLoop(_, _, _, _, _)
BestLoop(norm_raw, parties, k, c, best) ==
    IF k > Len(parties) THEN best
    ELSE LET candidate == IF c = 1 THEN parties[k].name ELSE parties[k].abbreviation
             score == _similarity(norm_raw, _normalize(candidate))
             next_best == IF ScoreBetter(score, best[2]) THEN <<parties[k].id, score>> ELSE best
         IN  IF c = 1 THEN BestLoop(norm_raw, parties, k, 2, next_best)
             ELSE BestLoop(norm_raw, parties, k + 1, 1, next_best)

\* lines 45-62
match_party_name(name, parties) ==
    LET best == BestLoop(_normalize(name), parties, 1, 1, <<None, <<0, 1>>>>)
    IN  IF MeetsThreshold(best[2]) THEN best[1] ELSE None

\* the parties of the election the polls are stored for
PollPartyPool == {
    [id |-> 1, name |-> <<"G", "r", "o", "e", "n", "L", "i", "n", "k", "s">>,
     abbreviation |-> <<"G", "L">>],
    [id |-> 2, name |-> <<"P", "a", "r", "t", "i", "j", " ", "v", "o", "o", "r", " ", "d", "e", " ", "D", "i", "e", "r", "e", "n">>,
     abbreviation |-> <<"P", "v", "d", "D">>],
    [id |-> 3, name |-> <<"P", "v", "d", "A">>,
     abbreviation |-> <<>>],
    [id |-> 4, name |-> <<"P", "a", "r", "t", "i", "j", " ", "v", "a", "n", " ", "d", "e", " ", "A", "r", "b", "e", "i", "d">>,
     abbreviation |-> <<"P", "v", "d", "A">>],
    [id |-> 5, name |-> <<"D", "6", "6">>,
     abbreviation |-> <<"D", "6", "6">>],
    [id |-> 6, name |-> <<"D", "e", "m", "o", "c", "r", "a", "t", "e", "n", " ", "6", "6">>,
     abbreviation |-> <<"D", "'", "6", "6">>]
}

PollPartyLists ==
    {s \in UNION {[1..n -> PollPartyPool] : n \in 0..MaxPollParties} :
        \A i, j \in 1..Len(s) : i # j => s[i].id # s[j].id}

\* party_name_raw of the rows of a poll chart
PollLabels == {
    <<"g", "r", "o", "e", "n", "l", "i", "n", "k", "s">>,
    <<"G", "r", "o", "e", "n", "L", "i", "n", "k", "s">>,
    <<"P", "a", "r", "t", "i", "j", " ", "v", "a", "n", " ", "d", "e", " ", "O", "u", "d", "e", "r", "e", "n">>,
    <<"P", "v", "d", "A">>,
    <<"D", "6", "6">>,
    <<"G", "r", "o", "e", "n", " ", "L", "i", "n", "k", "s">>,
    <<".", ".", ".">>,
    <<"V", "o", "l", "t">>,
    <<"p", "v", "d", "d">>,
    <<"G", "r", "o-diaeresis", "n", "l", "i", "n", "k", "s">>,
    <<" ", "D", "-", "6", "6", "\n">>
}

FuzzyInit ==
    /\ raw_name \in PollLabels
    /\ db_parties \in PollPartyLists
    /\ matched_party_id = None
    /\ fpc = "call"
    /\ OthersIdleForFuzzy

\* line 384: party_id = match_party_name(row["party_name_raw"], db_parties)
MatchPartyNameCall ==
    /\ fpc = "call"
    /\ matched_party_id' = match_party_name(raw_name, db_parties)
    /\ fpc' = "done"
    /\ UNCHANGED <<raw_name, db_parties>>
    /\ UNCHANGED notFuzzy

FuzzyNext == MatchPartyNameCall

SpecFuzzy == FuzzyInit /\ [][FuzzyNext]_vars

\* ------------------------------------------------------------------------
\* Properties of match_party_name
\* ------------------------------------------------------------------------
FuzzyDone == fpc = "done"

\* the similarity of the label and candidate string c (1: name,
\* 2: abbreviation) of party k, both normalized
CandidateScore(kc) ==
    _similarity(_normalize(raw_name),
                _normalize(IF kc[2] = 1 THEN db_parties[kc[1]].name
                           ELSE db_parties[kc[1]].abbreviation))
Candidates == (1..Len(db_parties)) \X {1, 2}
BestCandidates ==
    {p \in Candidates : \A q \in Candidates : FracLeq(CandidateScore(q), CandidateScore(p))}

\* x >= 0.85 = 17/20
AtLeast085(x) == 20 * x[1] >= 17 * x[2]

\* C8: match_party_name returns an id exactly when the greatest similarity
\* between the normalized label and any party's normalized name or
\* abbreviation is at least 0.85, and then the id of the first party, in the
\* order supplied, that attains the greatest similarity; otherwise None.
C8_BestAboveThreshold ==
    FuzzyDone =>
        matched_party_id =
            (IF \E p \in BestCandidates : AtLeast085(CandidateScore(p))
             THEN db_parties[Min({p[1] : p \in BestCandidates})].id
             ELSE None)

\* two parties attain the greatest similarity and the first one is returned
C8_Witness ==
    /\ FuzzyDone
    /\ Len(db_parties) = 2
    /\ \E p, q \in BestCandidates : p[1] = 1 /\ q[1] = 2
    /\ \E p \in BestCandidates : AtLeast085(CandidateScore(p))
    /\ matched_party_id = db_parties[1].id

LabelGroenlinksLower == <<"g", "r", "o", "e", "n", "l", "i", "n", "k", "s">>
NameGroenLinks == <<"G", "r", "o", "e", "n", "L", "i", "n", "k", "s">>
LabelOuderen == <<"P", "a", "r", "t", "i", "j", " ", "v", "a", "n", " ", "d", "e", " ", "O", "u", "d", "e", "r", "e", "n">>
PartyDieren ==
    [id |-> 2, name |-> <<"P", "a", "r", "t", "i", "j", " ", "v", "o", "o", "r", " ", "d", "e", " ", "D", "i", "e", "r", "e", "n">>,
     abbreviation |-> <<"P", "v", "d", "D">>]

\* C9: the label 'groenlinks' has similarity 1.0 to the party name
\* 'GroenLinks' and is matched to that party; the label 'Partij van de
\* Ouderen' against the registry holding only 'Partij voor de Dieren'
\* ('PvdD') has a best similarity below 0.85 and gives None.
C9_ThresholdExamples ==
    FuzzyDone =>
        /\ raw_name = LabelGroenlinksLower =>
               \A k \in 1..Len(db_parties) :
                   db_parties[k].name = NameGroenLinks =>
                       /\ CandidateScore(<<k, 1>>)[1] = CandidateScore(<<k, 1>>)[2]
                       /\ matched_party_id = db_parties[k].id
        /\ (raw_name = LabelOuderen /\ db_parties = <<PartyDieren>>) =>
               /\ \A p \in Candidates : ~AtLeast085(CandidateScore(p))
               /\ matched_party_id = None

C9_Witness ==
    /\ FuzzyDone
    /\ raw_name = LabelOuderen
    /\ db_parties = <<PartyDieren>>
    /\ CandidateScore(<<1, 1>>) = <<34, 42>>
    /\ matched_party_id = None

\* ------------------------------------------------------------------------
\* _extract_last_name, match_candidate (app/services/notubiz.py)
\* ------------------------------------------------------------------------
IsLetter(c) == IsLowerLetter(c) \/ IsUpperLetter(c)

\* lines 231-234
_is_initial(part) ==
    LET stripped == SelectSeq(part, LAMBDA c : c # ".")
    IN  /\ stripped # <<>>
        /\ \A i \in 1..Len(stripped) : IsLetter(stripped[i])
        /\ \A i \in 1..Len(stripped) : ~IsLowerLetter(stripped[i])
        /\ Len(stripped) <= 3

\* lines 247-248: drop the leading parts that look like initials
RECURSIVE DropInitials(_)
DropInitials(parts) ==
    IF parts # <<>> /\ _is_initial(parts[1]) THEN DropInitials(Tail(parts)) ELSE parts

\* lines 251-256 without the test of line 255: the first name is dropped
\* even when it is the only part left
DropFirstNameAlways(parts) ==
    IF parts # <<>> /\ IsUpperLetter(parts[1][1]) /\ ~_is_initial(parts[1])
    THEN Tail(parts)
    ELSE parts

\* lines 251-256: drop one first name
DropFirstName(parts) ==
    IF parts # <<>> /\ IsUpperLetter(parts[1][1]) /\ ~_is_initial(parts[1])
    THEN (IF Len(parts) > 1 THEN Tail(parts) ELSE parts)
    ELSE parts

\* lines 237-257
_extract_last_name(full_name) ==
    Lower(JoinSpace(DropFirstName(DropInitials(SplitSpace(Strip(full_name))))))

\* lines 272-277 with the last candidate of the same last name winning
RECURSIVE CandidateLoopLast(_, _, _)
CandidateLoopLast(notubiz_last, candidates, k) ==
    IF k > Len(candidates) THEN None
    ELSE LET later == CandidateLoopLast(notubiz_last, candidates, k + 1)
         IN  IF later # None THEN later
             ELSE IF notubiz_last = _extract_last_name(candidates[k].name)
                  THEN candidates[k].id
                  ELSE None

\* lines 272-277 returning the position in the list instead of the id
RECURSIVE CandidateLoopPosition(_, _, _)
CandidateLoopPosition(notubiz_last, candidates, k) ==
    IF k > Len(candidates) THEN None
    ELSE IF notubiz_last = _extract_last_name(candidates[k].name) THEN k
    ELSE CandidateLoopPosition(notubiz_last, candidates, k + 1)

\* lines 272-277: the first candidate with the same last name, from k on
RECURSIVE CandidateLoop(_, _, _)
CandidateLoop(notubiz_last, candidates, k) ==
    IF k > Len(candidates) THEN None
    ELSE IF notubiz_last = _extract_last_name(candidates[k].name) THEN candidates[k].id
    ELSE CandidateLoop(notubiz_last, candidates, k + 1)

\* lines 260-277
match_candidate(name, pid, candidates) ==
    LET notubiz_last == _extract_last_name(name)
    IN  IF notubiz_last = <<>> THEN None
        ELSE CandidateLoop(notubiz_last, candidates, 1)

\* surnames, initials and given names the person names are built from
Surnames == {
    <<"H", "a", "v", "e", "l", "a", "a", "r">>,
    <<"v", "a", "n", " ", "d", "e", "r", " ", "H", "o", "r", "s", "t">>,
    <<"v", "o", "n", " ", "G", "e", "r", "h", "a", "r", "d", "t">>,
    <<"H", "a", "v", "e", "l", "a", "a", "r", " ", "J", "a", "n", "s", "e", "n">>,
    <<"d", "e", " ", "V", "r", "i", "e", "s">>
}
InitialsForms == {
    <<"R", ".", "B", ".">>,
    <<"J", ".">>,
    <<"M", ".", " ", "S", ".">>
}
GivenNames == {
    <<"R", "o", "b">>,
    <<"M", "e", "l", "a", "n", "i", "e">>
}
InitialsName(initials, surname) == initials \o <<" ">> \o surname
FullName(given, surname) == given \o <<" ">> \o surname

\* names as Notubiz writes them ("J. Broersen"), and a few other strings
NotubizPersonNames ==
    {InitialsName(i, sn) : i \in InitialsForms, sn \in Surnames} \cup {
    <<>>,
    <<" ", " ">>,
    <<"H", "a", "v", "e", "l", "a", "a", "r">>,
    <<"R", ".", "B", ".">>,
    <<"R", "o", "b">>,
    <<"d", "e", " ", "V", "r", "i", "e", "s">>,
    <<"A", "B", "C", "D", " ", "J", "a", "n", "s", "e", "n">>
}

\* rows of the candidates table: full names ("Joris Broersen")
CandidatePool == {
    [id |-> 1, name |-> FullName(<<"R", "o", "b">>, <<"H", "a", "v", "e", "l", "a", "a", "r">>)],
    [id |-> 2, name |-> FullName(<<"M", "e", "l", "a", "n", "i", "e">>, <<"H", "a", "v", "e", "l", "a", "a", "r">>)],
    [id |-> 3, name |-> FullName(<<"R", "o", "b">>, <<"v", "a", "n", " ", "d", "e", "r", " ", "H", "o", "r", "s", "t">>)],
    [id |-> 4, name |-> FullName(<<"M", "e", "l", "a", "n", "i", "e">>, <<"v", "a", "n", " ", "d", "e", "r", " ", "H", "o", "r", "s", "t">>)],
    [id |-> 5, name |-> FullName(<<"R", "o", "b">>, <<"v", "o", "n", " ", "G", "e", "r", "h", "a", "r", "d", "t">>)],
    [id |-> 6, name |-> FullName(<<"M", "e", "l", "a", "n", "i", "e">>, <<"v", "o", "n", " ", "G", "e", "r", "h", "a", "r", "d", "t">>)],
    [id |-> 7, name |-> FullName(<<"R", "o", "b">>, <<"H", "a", "v", "e", "l", "a", "a", "r", " ", "J", "a", "n", "s", "e", "n">>)],
    [id |-> 8, name |-> FullName(<<"M", "e", "l", "a", "n", "i", "e">>, <<"H", "a", "v", "e", "l", "a", "a", "r", " ", "J", "a", "n", "s", "e", "n">>)],
    [id |-> 9, name |-> FullName(<<"R", "o", "b">>, <<"d", "e", " ", "V", "r", "i", "e", "s">>)],
    [id |-> 10, name |-> FullName(<<"M", "e", "l", "a", "n", "i", "e">>, <<"d", "e", " ", "V", "r", "i", "e", "s">>)]
}

CandidateLists ==
    {s \in UNION {[1..n -> CandidatePool] : n \in 0..MaxCandidates} :
        \A i, j \in 1..Len(s) : i # j => s[i].id # s[j].id}

CandidateInit ==
    /\ notubiz_person_name \in NotubizPersonNames
    /\ person_id \in {None, 4711}
    /\ db_candidates \in CandidateLists
    /\ candidate_id = None
    /\ kpc = "call"
    /\ OthersIdleForCandidate

\* fetch_motions.py line 110
MatchCandidateCall ==
    /\ kpc = "call"
    /\ candidate_id' = match_candidate(notubiz_person_name, person_id, db_candidates)
    /\ kpc' = "done"
    /\ UNCHANGED <<notubiz_person_name, person_id, db_candidates>>
    /\ UNCHANGED notCandidate

CandidateNext == MatchCandidateCall

SpecCandidate == CandidateInit /\ [][CandidateNext]_vars

\* ------------------------------------------------------------------------
\* Properties of _extract_last_name and match_candidate
\* ------------------------------------------------------------------------
CandidateDone == kpc = "done"

\* the submitter is written with initials and candidate k is the same
\* surname under a full given name
SamePerson(k) ==
    \E sn \in Surnames : \E i \in InitialsForms : \E g \in GivenNames :
        /\ notubiz_person_name = InitialsName(i, sn)
        /\ db_candidates[k].name = FullName(g, sn)

\* C10: the initials form and the full-given-name form of one surname have
\* the same surname key, so match_candidate links the initials-form name to
\* a candidate stored under the full name with that surname.
C10_InitialsMatchFullName ==
    CandidateDone =>
        \A k \in 1..Len(db_candidates) :
            SamePerson(k) =>
                /\ _extract_last_name(notubiz_person_name)
                       = _extract_last_name(db_candidates[k].name)
                /\ candidate_id # None

\* positions of the candidates whose surname key equals the submitter's
KeyMatches ==
    {k \in 1..Len(db_candidates) :
        _extract_last_name(db_candidates[k].name) = _extract_last_name(notubiz_person_name)}

\* C11: match_candidate returns the id of the first candidate, in the order
\* supplied, whose surname key equals the key of the name; None when the
\* name's key is empty or no candidate has that key; the result is always an
\* id or None and is the same for every person id.
C11_FirstSameKey ==
    CandidateDone =>
        /\ candidate_id =
               IF _extract_last_name(notubiz_person_name) = <<>> \/ KeyMatches = {}
               THEN None
               ELSE db_candidates[Min(KeyMatches)].id
        /\ \A pid \in {None, 4711} :
               match_candidate(notubiz_person_name, pid, db_candidates) = candidate_id

\* two candidates share the submitter's surname key and the first one is returned
C11_Witness ==
    /\ CandidateDone
    /\ person_id # None
    /\ Cardinality(KeyMatches) = 2
    /\ candidate_id = db_candidates[1].id

\* ------------------------------------------------------------------------
\* The three matchers together
\* ------------------------------------------------------------------------
\* one call of one of match_party, match_party_name, match_candidate
MatchersInit == PartyInit \/ FuzzyInit \/ CandidateInit

MatchersNext == MatchPartyCall \/ MatchPartyNameCall \/ MatchCandidateCall

SpecMatchers == MatchersInit /\ [][MatchersNext]_vars

PartyIds == {db_parties[k].id : k \in 1..Len(db_parties)}
CandidateIds == {db_candidates[k].id : k \in 1..Len(db_candidates)}

\* C12: a value other than None returned by match_party, match_party_name or
\* match_candidate is the id of a record in the collection given to the call.
C12_ResultInCollection ==
    /\ (mpc = "done" /\ party_id # None) => party_id \in PartyIds
    /\ (fpc = "done" /\ matched_party_id # None) => matched_party_id \in PartyIds
    /\ (kpc = "done" /\ candidate_id # None) => candidate_id \in CandidateIds

\* match_candidate returned the id of the second candidate of the list
C12_Witness ==
    /\ kpc = "done"
    /\ Len(db_candidates) = 2
    /\ candidate_id = db_candidates[2].id
    /\ candidate_id > 2

\* ------------------------------------------------------------------------
\* _extract_field_period (app/services/polls.py)
\* ------------------------------------------------------------------------
\* the en-dash U+2013 as one character
EnDash == "EN DASH"

\* lines 77-81: the keys of _NL_MONTHS in insertion order; the value of a
\* key is its position
_NL_MONTHS == <<
    <<"j", "a", "n", "u", "a", "r", "i">>,
    <<"f", "e", "b", "r", "u", "a", "r", "i">>,
    <<"m", "a", "a", "r", "t">>,
    <<"a", "p", "r", "i", "l">>,
    <<"m", "e", "i">>,
    <<"j", "u", "n", "i">>,
    <<"j", "u", "l", "i">>,
    <<"a", "u", "g", "u", "s", "t", "u", "s">>,
    <<"s", "e", "p", "t", "e", "m", "b", "e", "r">>,
    <<"o", "k", "t", "o", "b", "e", "r">>,
    <<"n", "o", "v", "e", "m", "b", "e", "r">>,
    <<"d", "e", "c", "e", "m", "b", "e", "r">>
>>

\* a failed match
NoMatch == [ok |-> FALSE, groups |-> <<>>, next |-> 0]

IsDigit(c) == c \in Digits
CharAt(t, i) == IF i >= 1 /\ i <= Len(t) THEN t[i] ELSE ""

\* int() of a string of decimal digits
RECURSIVE ToInt(_)
ToInt(ds) ==
    IF ds = <<>> THEN 0
    ELSE 10 * ToInt(SubSeq(ds, 1, Len(ds) - 1))
             + (CHOOSE n \in 0..9 : ToString(n) = ds[Len(ds)])

\* the literal word w at position i, letter case ignored (re.IGNORECASE)
LiteralAt(t, i, w) ==
    /\ i + Len(w) - 1 <= Len(t)
    /\ Lower(SubSeq(t, i, i + Len(w) - 1)) = w

\* \s+ or \s* at position i: the position after the whole run of white
\* space, 0 when the run is shorter than least
RECURSIVE AfterSpaces(_, _)
AfterSpaces(t, i) == IF IsSpace(CharAt(t, i)) THEN AfterSpaces(t, i + 1) ELSE i
SpacesAt(t, i, least) ==
    LET j == AfterSpaces(t, i) IN IF j - i >= least THEN j ELSE 0

\* (januari|februari|...) at position i: the month number, 0 when none
MonthAt(t, i) ==
    LET hits == {m \in 1..12 : LiteralAt(t, i, _NL_MONTHS[m])}
    IN  IF hits = {} THEN 0 ELSE Min(hits)

\* (\d{1,2})\s+(januari|...) at position i: two digits are tried before one
DayMonthAt(t, i) ==
    LET try(k) ==
            IF \A j \in i..(i + k - 1) : IsDigit(CharAt(t, j))
            THEN LET p == SpacesAt(t, i + k, 1)
                     m == IF p = 0 THEN 0 ELSE MonthAt(t, p)
                 IN  IF m = 0 THEN NoMatch
                     ELSE [ok |-> TRUE,
                           groups |-> <<SubSeq(t, i, i + k - 1), m>>,
                           next |-> p + Len(_NL_MONTHS[m])]
            ELSE NoMatch
        two == try(2)
    IN  IF two.ok THEN two ELSE try(1)

\* a match of nothing that ends before position p
Matched(p) == [ok |-> TRUE, groups |-> <<>>, next |-> p]

\* the match a continued by the match of the next part of a pattern, which
\* starts where a ends
Then(t, a, Part(_, _)) ==
    IF a.ok
    THEN LET b == Part(t, a.next)
         IN  IF b.ok
             THEN [ok |-> TRUE, groups |-> a.groups \o b.groups, next |-> b.next]
             ELSE NoMatch
    ELSE NoMatch

\* \s+(\d{4}) at position i
YearAt(t, i) ==
    LET p == SpacesAt(t, i, 1)
    IN  IF p # 0 /\ \A j \in p..(p + 3) : IsDigit(CharAt(t, j))
        THEN [ok |-> TRUE, groups |-> <<SubSeq(t, p, p + 3)>>, next |-> p + 4]
        ELSE NoMatch

\* the alternatives of (?:en|t/m|tot|-|-), in the order of the pattern
SepWords == <<
    <<"e", "n">>,
    <<"t", "/", "m">>,
    <<"t", "o", "t">>,
    <<EnDash>>,
    <<"-">>
>>

\* \s+(?:en|t/m|tot|-|-)\s+ at position i
SepWordAt(t, i) ==
    LET p == SpacesAt(t, i, 1)
        ends == {SpacesAt(t, p + Len(SepWords[k]), 1) :
                     k \in {k \in 1..Len(SepWords) : p # 0 /\ LiteralAt(t, p, SepWords[k])}}
    IN  IF ends \ {0} = {} THEN NoMatch ELSE Matched(Min(ends \ {0}))

\* the characters of the class [t/--] (with re.IGNORECASE)
SepClass == {"t", "T", "/", EnDash, "-"}

RECURSIVE AfterSepClass(_, _)
AfterSepClass(t, i) == IF CharAt(t, i) \in SepClass THEN AfterSepClass(t, i + 1) ELSE i

\* \s*[t/--]+\s* at position i, as far as it matters before a digit
SepClassAt(t, i) ==
    LET p == SpacesAt(t, i, 0)
        q == AfterSepClass(t, p)
    IN  IF q > p THEN Matched(SpacesAt(t, q, 0)) ELSE NoMatch

\* (?!\s+\d{4}) at position i
NoYearAhead(t, i) == IF YearAt(t, i).ok THEN NoMatch ELSE Matched(i)

\* lines 100-105: _PERIOD_BOTH_YEARS at position i
BothYearsAt(t, i) ==
    Then(t, Then(t, Then(t, Then(t, DayMonthAt(t, i), YearAt), SepClassAt), DayMonthAt), YearAt)

\* lines 84-89: _PERIOD_SAME_YEAR at position i
SameYearAt(t, i) ==
    Then(t, Then(t, Then(t, DayMonthAt(t, i), SepWordAt), DayMonthAt), YearAt)

\* lines 92-97: _PERIOD_NO_YEAR at position i
NoYearAt(t, i) ==
    Then(t, Then(t, Then(t, DayMonthAt(t, i), SepWordAt), DayMonthAt), NoYearAhead)

\* lines 107-110: _DATE_SINGLE at position i
DateSingleAt(t, i) == Then(t, DayMonthAt(t, i), YearAt)

\* pattern.search(text): the match at the leftmost position that has one
Search(At(_, _), t) ==
    LET at == [i \in 1..Len(t) |-> At(t, i)]
        starts == {i \in 1..Len(t) : at[i].ok}
    IN  IF starts = {} THEN NoMatch ELSE at[Min(starts)]

\* None in the place of a date
NoDate == <<>>

\* datetime.date(year, month, day) accepts the triple
DaysInMonth(y, m) ==
    IF m = 2 THEN (IF (y % 4 = 0 /\ y % 100 # 0) \/ y % 400 = 0 THEN 29 ELSE 28)
    ELSE IF m \in {4, 6, 9, 11} THEN 30 ELSE 31
ValidDate(dt) ==
    /\ dt[1] >= 1 /\ dt[1] <= 9999
    /\ dt[2] >= 1 /\ dt[2] <= 12
    /\ dt[3] >= 1 /\ dt[3] <= DaysInMonth(dt[1], dt[2])

\* lines 116-117: the arguments of date(); date() raises ValueError when
\* they are not a calendar date
_parse_nl_date(day, month, year) == <<year, month, ToInt(day)>>

\* date() raises ValueError for these arguments
DateRaises(dt) == ~ValidDate(dt)

\* the outcome of a return statement whose tuple holds the dates a and b
\* (NoDate for a literal None)
Return(a, b) ==
    IF (a # NoDate /\ DateRaises(a)) \/ (b # NoDate /\ DateRaises(b))
    THEN [raised |-> TRUE, start |-> NoDate, end |-> NoDate]
    ELSE [raised |-> FALSE, start |-> a, end |-> b]

\* line 138 without the test of fallback_year
FallbackUsableAlways(fy) == TRUE

\* line 138: "and fallback_year"
FallbackUsable(fy) == fy # None /\ fy # 0

\* lines 128-129: the value returned for a match of _PERIOD_BOTH_YEARS
BothYearsResult(m) ==
    Return(_parse_nl_date(m.groups[1], m.groups[2], ToInt(m.groups[3])),
           _parse_nl_date(m.groups[4], m.groups[5], ToInt(m.groups[6])))

\* lines 133-135: the value returned for a match of _PERIOD_SAME_YEAR
SameYearResult(m) ==
    Return(_parse_nl_date(m.groups[1], m.groups[2], ToInt(m.groups[5])),
           _parse_nl_date(m.groups[3], m.groups[4], ToInt(m.groups[5])))

\* lines 139-140: the value returned for a match of _PERIOD_NO_YEAR
NoYearResult(m, fy) ==
    Return(_parse_nl_date(m.groups[1], m.groups[2], fy),
           _parse_nl_date(m.groups[3], m.groups[4], fy))

\* lines 145-146: the value returned for a match of _DATE_SINGLE
SingleResult(m) ==
    Return(NoDate, _parse_nl_date(m.groups[1], m.groups[2], ToInt(m.groups[3])))

\* lines 126-148 with the single date looked for before the ranges
ReturnForSingleFirst(m1, m2, m3, m4, fy) ==
    IF m4.ok THEN SingleResult(m4)
    ELSE IF m1.ok THEN BothYearsResult(m1)
    ELSE IF m2.ok THEN SameYearResult(m2)
    ELSE IF m3.ok /\ FallbackUsable(fy) THEN NoYearResult(m3, fy)
    ELSE Return(NoDate, NoDate)

\* lines 126-148: the return statement taken, given the four matches
ReturnFor(m1, m2, m3, m4, fy) ==
    IF m1.ok THEN BothYearsResult(m1)
    ELSE IF m2.ok THEN SameYearResult(m2)
    ELSE IF m3.ok /\ FallbackUsable(fy) THEN NoYearResult(m3, fy)
    ELSE IF m4.ok THEN SingleResult(m4)
    ELSE Return(NoDate, NoDate)

\* lines 120-148
_extract_field_period(t, fy) ==
    ReturnFor(Search(BothYearsAt, t), Search(SameYearAt, t), Search(NoYearAt, t),
              Search(DateSingleAt, t), fy)

\* the texts handed to _extract_field_period: a range or a single date in
\* one of the written forms, between a prefix and a suffix
DayWords == {<<<<"9">>, 9>>, <<<<"3", "1">>, 31>>}
MonthWords == {<<<<"j", "a", "n", "u", "a", "r", "i">>, 1>>, <<<<"F", "e", "b", "r", "u", "a", "r", "i">>, 2>>}
YearWords == {<<<<"2", "0", "2", "6">>, 2026>>, <<<<"2", "0", "2", "7">>, 2027>>}
SpacedSeparators == {
    <<" ", "e", "n", " ">>,
    <<" ", "t", "/", "m", " ">>,
    <<" ", "t", "o", "t", " ">>,
    <<" ", EnDash, " ">>,
    <<" ", "-", " ">>
}
Separators == SpacedSeparators \cup {<<"-">>}
\* "5 mei t/m 9 juni 2025: ", an older period written before the one looked for
RangePrefix == <<"5", " ", "m", "e", "i", " ", "t", "/", "m", " ", "9", " ", "j", "u", "n", "i",
                 " ", "2", "0", "2", "5", ":", " ">>
Prefixes == {<<>>, <<"O", "p", " ", "5", " ", "m", "e", "i", " ", "2", "0", "2", "5", ":", " ">>,
             RangePrefix}
Suffixes == {<<>>, <<" ", "1", ".", "3", "5", "4", " ", "A", "m", "s", "t", "e", "r", "d", "a", "m", "m", "e", "r", "s">>,
             <<" ", "1", "3", "5", "4", " ", "k", "e", "e", "r">>}
NoWord == <<<<>>, 0>>

\* an endpoint of a range: day, month and year as written, with their values
Endpoints == [d : DayWords, mo : MonthWords, y : YearWords]
NoEndpoint == [d |-> NoWord, mo |-> NoWord, y |-> NoWord]
WithoutYear(e) == [e EXCEPT !.y = NoWord]

\* the written forms: years on both endpoints, on the last one, on none; a
\* single date; no date
Forms == {"both", "same", "none", "single", "nodate"}

\* the parts of a text of the given form
Source(form, pre, a, sep, b, suf) ==
    [form |-> form, prefix |-> pre, suffix |-> suf,
     first |-> CASE form = "both" -> a
                 [] form \in {"same", "none"} -> WithoutYear(a)
                 [] OTHER -> NoEndpoint,
     sep |-> IF form \in {"both", "same", "none"} THEN sep ELSE <<>>,
     second |-> CASE form \in {"both", "same", "single"} -> b
                  [] form = "none" -> WithoutYear(b)
                  [] OTHER -> NoEndpoint]

\* "27 januari 2026", "27 januari" or nothing
RenderDate(e) ==
    IF e.d = NoWord THEN <<>>
    ELSE e.d[1] \o <<" ">> \o e.mo[1] \o (IF e.y = NoWord THEN <<>> ELSE <<" ">> \o e.y[1])

Render(s) == s.prefix \o RenderDate(s.first) \o s.sep \o RenderDate(s.second) \o s.suffix

PeriodInit ==
    /\ \E form \in Forms, pre \in Prefixes, suf \in Suffixes :
       \E a \in Endpoints, sep \in Separators, b \in Endpoints :
           /\ form \in {"same", "none"} => sep \in SpacedSeparators
           /\ pre = RangePrefix => suf = <<>>
           /\ period_src = Source(form, pre, a, sep, b, suf)
    /\ period_text = Render(period_src)
    /\ fallback_year \in {None, 2026}
    /\ field_period = Return(NoDate, NoDate)
    /\ epc = "call"
    /\ OthersIdleForPeriod

\* line 273
ExtractFieldPeriodCall ==
    /\ epc = "call"
    /\ field_period' = _extract_field_period(period_text, fallback_year)
    /\ epc' = "done"
    /\ UNCHANGED <<period_src, period_text, fallback_year>>
    /\ UNCHANGED notPeriod

PeriodNext == ExtractFieldPeriodCall

SpecPeriod == PeriodInit /\ [][PeriodNext]_vars

\* ------------------------------------------------------------------------
\* Properties of _extract_field_period
\* ------------------------------------------------------------------------
PeriodDone == epc = "done"

\* the date an endpoint of the source text names, with the year y
DateOf(e, y) == <<y, e.mo[2], e.d[2]>>

\* the endpoints the text was written from are calendar dates in the years y1, y2
SourceDatesValid(y1, y2) ==
    /\ ValidDate(DateOf(period_src.first, y1))
    /\ ValidDate(DateOf(period_src.second, y2))

Returned(a, b) == field_period = [raised |-> FALSE, start |-> a, end |-> b]

\* C13: for each of the separators "en", "t/m", "tot", en-dash and hyphen,
\* surrounded by white space, a text containing
\* "D1 MONTH1 YYYY1 <sep> D2 MONTH2 YYYY2" gives the pair of the two dates,
\* each with its own year.
C13_BothYearsAnySeparator ==
    (/\ PeriodDone
     /\ period_src.form = "both"
     /\ period_src.sep \in SpacedSeparators
     /\ SourceDatesValid(period_src.first.y[2], period_src.second.y[2]))
    => Returned(DateOf(period_src.first, period_src.first.y[2]),
                DateOf(period_src.second, period_src.second.y[2]))

\* some position of the text matches the pattern with both years, or the one
\* with the year at the end
MatchesYearGrammar ==
    Search(BothYearsAt, period_text).ok \/ Search(SameYearAt, period_text).ok

\* the one date with a year that occurs in the text beside the range
SingleDateInPrefix == IF period_src.prefix = <<>> THEN NoDate ELSE <<2025, 5, 5>>

\* C14: a text with a range "D MONTH <sep> D MONTH" without years, and no
\* range with years, gives both dates in fallback_year; when fallback_year
\* is None the range is skipped and the result is (None, None), or
\* (None, date) when a single "D MONTH YYYY" date occurs in the text.
C14_NoYearUsesFallback ==
    (/\ PeriodDone
     /\ period_src.form = "none"
     /\ ~MatchesYearGrammar)
    => IF fallback_year # None
       THEN SourceDatesValid(fallback_year, fallback_year)
                => Returned(DateOf(period_src.first, fallback_year),
                            DateOf(period_src.second, fallback_year))
       ELSE Returned(NoDate, SingleDateInPrefix)

\* the range without years followed by a number that is not a year is read
\* with the fallback year although a dated sentence precedes it
C14_Witness ==
    /\ PeriodDone
    /\ period_src.form = "none"
    /\ period_src.prefix # <<>>
    /\ period_src.suffix # <<>>
    /\ ~MatchesYearGrammar
    /\ fallback_year = 2026
    /\ Returned(<<2026, 1, 31>>, <<2026, 2, 9>>)

\* C15: _extract_field_period never raises; a matched day, month and year
\* that are not a calendar date give None for the affected result.
C15_NeverRaises == PeriodDone => ~field_period.raised

\* ------------------------------------------------------------------------
\* _parse_results_from_values (app/services/polls.py)
\* ------------------------------------------------------------------------
\* A JSON value of a chart row: kind says what it is, v holds a number in
\* tenths (2.5 is 25), s holds the characters of a name.
Val(kind, v, s) == [kind |-> kind, v |-> v, s |-> s]
Absent == Val("absent", 0, <<>>)      \* the key is not in the row
NoneVal == Val("none", 0, <<>>)       \* null
Num(tenths) == Val("num", tenths, <<>>)       \* an int or a float
NumStr(tenths) == Val("numstr", tenths, <<>>) \* a string float() accepts
BadStr == Val("badstr", 0, <<>>)      \* a non-empty string float() rejects
EmptyStr == Val("emptystr", 0, <<>>)  \* ""
InfStr == Val("infstr", 0, <<>>)      \* "inf", "Infinity" or "1e999"
ListVal == Val("list", 0, <<>>)       \* a non-empty list
Name(s) == Val("name", 0, s)          \* a non-empty string that names a party

\* row.get(key)
Get(row, key) == IF row[key].kind = "absent" THEN NoneVal ELSE row[key]

\* bool(x)
Truthy(x) ==
    CASE x.kind \in {"absent", "none", "emptystr"} -> FALSE
      [] x.kind = "num" -> x.v # 0
      [] OTHER -> TRUE

\* a or b
Or(a, b) == IF Truthy(a) THEN a ELSE b

\* float(x): a finite number in tenths, infinity, or the exception raised
Float(x) ==
    CASE x.kind \in {"num", "numstr"} -> [exc |-> "none", inf |-> FALSE, v |-> x.v]
      [] x.kind = "infstr" -> [exc |-> "none", inf |-> TRUE, v |-> 0]
      [] x.kind \in {"badstr", "emptystr", "name"} ->
             [exc |-> "ValueError", inf |-> FALSE, v |-> 0]
      [] OTHER -> [exc |-> "TypeError", inf |-> FALSE, v |-> 0]

\* round(f) for f >= 0 given in tenths: halves go to the even neighbour
Round(tenths) ==
    LET q == tenths \div 10
        r == tenths % 10
    IN  IF r < 5 THEN q
        ELSE IF r > 5 THEN q + 1
        ELSE IF q % 2 = 0 THEN q ELSE q + 1

\* the exceptions the two try blocks catch (lines 203, 209)
Caught == {"ValueError", "TypeError"}

\* lines 199-204: the percentage of the row, in tenths of a percent
Percentage(row) ==
    LET pct == Get(row, "percentage")
        f == Float(pct)
    IN  IF pct.kind = "none" THEN [exc |-> "none", val |-> NoneVal]
        ELSE IF f.exc \in Caught THEN [exc |-> "none", val |-> NoneVal]
        ELSE IF f.inf THEN [exc |-> "none", val |-> Val("inf", 0, <<>>)]
        ELSE [exc |-> "none", val |-> Num(f.v * 100)]

\* line 205
SeatsValue(row) == Or(Get(row, "seats"), Get(row, "zetels"))

\* int(round(f)): round() of infinity raises OverflowError
RoundExc(f) == IF f.inf THEN "OverflowError" ELSE "none"

\* lines 205-210: the seats of the row, a whole number
Seats(row) ==
    LET seats == SeatsValue(row)
        f == Float(seats)
    IN  IF seats.kind = "none" THEN [exc |-> "none", val |-> NoneVal]
        ELSE IF f.exc \in Caught THEN [exc |-> "none", val |-> NoneVal]
        ELSE IF RoundExc(f) \in Caught THEN [exc |-> "none", val |-> NoneVal]
        ELSE IF RoundExc(f) # "none" THEN [exc |-> RoundExc(f), val |-> NoneVal]
        ELSE [exc |-> "none", val |-> Val("int", Round(f.v), <<>>)]

\* line 196
PartyNameOf(row) == Or(Or(Get(row, "party"), Get(row, "partij")), Get(row, "naam"))

\* lines 194-198: the row is passed over
Skipped(row) == ~row.isdict \/ ~Truthy(PartyNameOf(row))

\* lines 211-215
ParsedRow(row) ==
    [party_name_raw |-> PartyNameOf(row).s,
     percentage |-> Percentage(row).val,
     seats |-> Seats(row).val]

\* a chart row with the keys the parser reads
Row(party, partij, naam, percentage, seats, zetels) ==
    [isdict |-> TRUE, party |-> party, partij |-> partij, naam |-> naam,
     percentage |-> percentage, seats |-> seats, zetels |-> zetels]

\* an element of the list that is not a dict
NotADict == [isdict |-> FALSE, party |-> Absent, partij |-> Absent, naam |-> Absent,
             percentage |-> Absent, seats |-> Absent, zetels |-> Absent]

NameA == Name(<<"V", "V", "D">>)
NameB == Name(<<"D", "6", "6">>)
NameC == Name(<<"S", "P">>)

RowPool == {
    Row(NameA, Absent, Absent, Num(5), Num(70), Absent),
    Row(NameA, Absent, Absent, Num(1), Num(0), Absent),
    Row(NameA, Absent, Absent, Absent, Num(25), Absent),
    Row(NameA, Absent, Absent, Absent, Num(35), Absent),
    Row(NameA, Absent, Absent, Absent, Num(0), Num(50)),
    Row(NameA, Absent, Absent, NoneVal, NoneVal, Absent),
    Row(NameA, Absent, Absent, Num(5), BadStr, Absent),
    Row(NameA, Absent, Absent, Absent, InfStr, Absent),
    Row(EmptyStr, NameB, Absent, BadStr, NumStr(70), Absent),
    Row(Absent, NameB, Absent, Absent, Absent, Num(50)),
    Row(Absent, NameB, Absent, ListVal, NumStr(0), Absent),
    Row(Absent, Absent, NameC, Absent, Absent, Absent),
    Row(Absent, Absent, NameC, Absent, EmptyStr, Absent),
    Row(Absent, Absent, NameC, Absent, ListVal, Absent),
    Row(Absent, Absent, Absent, Num(5), Num(70), Absent),
    Row(EmptyStr, Absent, Absent, Num(5), Num(70), Absent),
    NotADict
}

ValueLists == UNION {[1..n -> RowPool] : n \in 0..MaxRows}

ResultsInit ==
    /\ values \in ValueLists
    /\ row_i = 1
    /\ parsed = <<>>
    /\ parse_exc = "none"
    /\ rpc = "loop"
    /\ OthersIdleForResults

\* lines 194-198: continue
ParseSkipRow ==
    /\ rpc = "loop"
    /\ row_i <= Len(values)
    /\ Skipped(values[row_i])
    /\ row_i' = row_i + 1
    /\ UNCHANGED <<values, parsed, parse_exc, rpc>>
    /\ UNCHANGED notResults

\* lines 199-215: the row is appended
ParseAppendRow ==
    /\ rpc = "loop"
    /\ row_i <= Len(values)
    /\ ~Skipped(values[row_i])
    /\ Percentage(values[row_i]).exc = "none"
    /\ Seats(values[row_i]).exc = "none"
    /\ parsed' = Append(parsed, ParsedRow(values[row_i]))
    /\ row_i' = row_i + 1
    /\ UNCHANGED <<values, parse_exc, rpc>>
    /\ UNCHANGED notResults

\* lines 199-210: an exception no except clause names leaves the function
ParseRowRaises ==
    /\ rpc = "loop"
    /\ row_i <= Len(values)
    /\ ~Skipped(values[row_i])
    /\ Percentage(values[row_i]).exc = "none"
    /\ Seats(values[row_i]).exc # "none"
    /\ parse_exc' = Seats(values[row_i]).exc
    /\ rpc' = "raised"
    /\ UNCHANGED <<values, row_i, parsed>>
    /\ UNCHANGED notResults

\* line 216
ParseReturn ==
    /\ rpc = "loop"
    /\ row_i > Len(values)
    /\ rpc' = "done"
    /\ UNCHANGED <<values, row_i, parsed, parse_exc>>
    /\ UNCHANGED notResults

ResultsNext == ParseSkipRow \/ ParseAppendRow \/ ParseRowRaises \/ ParseReturn

SpecResults == ResultsInit /\ [][ResultsNext]_vars

\* ------------------------------------------------------------------------
\* Properties of _parse_results_from_values
\* ------------------------------------------------------------------------
\* the record carries a party name under one of the keys party, partij, naam
HasName(row) ==
    row.isdict /\ \E key \in {"party", "partij", "naam"} : row[key].kind = "name"

\* the name the record carries: the first of the three keys that has one
NameOfRecord(row) ==
    IF row["party"].kind = "name" THEN row["party"]
    ELSE IF row["partij"].kind = "name" THEN row["partij"]
    ELSE row["naam"]

\* the seats value of the record: under "seats", else under "zetels"
SeatsOfRecord(row) == IF row["seats"].kind # "absent" THEN row["seats"] ELSE row["zetels"]

\* positions of the records with a name, in input order
NamedPositions ==
    SelectSeq([k \in 1..Len(values) |-> k], LAMBDA k : HasName(values[k]))

IsNumeric(x) == x.kind \in {"num", "numstr"}
Uncoercible(x) == x.kind \in {"badstr", "emptystr", "list"}

\* n is a whole number nearest to the value given in tenths
NearestInt(n, tenths) == 10 * n - tenths <= 5 /\ tenths - 10 * n <= 5

\* C16: every record with a party name and a seats (or zetels) value that
\* is a number or a numeric string, 0 included, gives seats equal to that
\* value rounded to the nearest integer; a seats value that cannot be
\* coerced gives seats None and the row is kept.
C16_SeatsRounded ==
    rpc = "done" =>
        /\ Len(parsed) = Len(NamedPositions)
        /\ \A j \in 1..Len(NamedPositions) :
               LET x == SeatsOfRecord(values[NamedPositions[j]])
               IN  /\ IsNumeric(x) =>
                          /\ parsed[j].seats.kind = "int"
                          /\ NearestInt(parsed[j].seats.v, x.v)
                   /\ Uncoercible(x) => parsed[j].seats.kind = "none"

\* C17: exactly one output row, in input order, for every record with a
\* party name, also when percentage and seats are missing or cannot be
\* coerced (the field is None); records without a name give nothing; a bad
\* field of one record never removes the rows of the other records.
C17_OneRowPerNamedRecord ==
    rpc \in {"done", "raised"} =>
        /\ rpc = "done"
        /\ Len(parsed) = Len(NamedPositions)
        /\ \A j \in 1..Len(NamedPositions) :
               LET row == values[NamedPositions[j]]
               IN  /\ parsed[j].party_name_raw = NameOfRecord(row).s
                   /\ Uncoercible(row["percentage"]) => parsed[j].percentage.kind = "none"
                   /\ Uncoercible(SeatsOfRecord(row)) => parsed[j].seats.kind = "none"

\* ------------------------------------------------------------------------
\* _normalize applied to a name, to its own result, and to a respelling
\* ------------------------------------------------------------------------
\* the characters the names are written with
NormAlphabet == {"e", "E", "e-acute", "COMBINING ACUTE", " ", "-"}

NormInputs == UNION {[1..n -> NormAlphabet] : n \in 0..MaxNameLen}

\* the spellings of one character that differ in letter case or in a
\* diacritical mark only
Respellings(c) ==
    IF c \in {"e", "E", "e-acute"}
    THEN {<<"e">>, <<"E">>, <<"e-acute">>, <<"e", "COMBINING ACUTE">>}
    ELSE {<<c>>}

\* the respellings of a name, character by character
RECURSIVE RespellingsOf(_)
RespellingsOf(s) ==
    IF s = <<>> THEN {<<>>}
    ELSE {h \o t : h \in Respellings(Head(s)), t \in RespellingsOf(Tail(s))}

NormalizeInit ==
    /\ norm_in \in NormInputs
    /\ norm_variant \in RespellingsOf(norm_in)
    /\ norm_out = [once |-> <<>>, twice |-> <<>>, variant |-> <<>>]
    /\ npc = "call"
    /\ OthersIdleForNormalize

\* polls.py lines 47 and 52: _normalize on the label and on the party names
NormalizeCalls ==
    /\ npc = "call"
    /\ norm_out' = [once |-> _normalize(norm_in),
                    twice |-> _normalize(_normalize(norm_in)),
                    variant |-> _normalize(norm_variant)]
    /\ npc' = "done"
    /\ UNCHANGED <<norm_in, norm_variant>>
    /\ UNCHANGED notNormalize

NormalizeNext == NormalizeCalls

SpecNormalize == NormalizeInit /\ [][NormalizeNext]_vars

RECURSIVE SplitLines(_)
SplitLines(s) ==
    LET breaks == {i \in 1..Len(s) : s[i] = "\n"}
    IN  IF s = <<>> THEN <<>>
        ELSE IF breaks = {} THEN <<s>>
        ELSE <<SubSeq(s, 1, Min(breaks) - 1)>> \o SplitLines(SubSeq(s, Min(breaks) + 1, Len(s)))

\* "\n".join(parts)
RECURSIVE JoinNewline(_)
JoinNewline(parts) ==
    IF parts = <<>> THEN <<>>
    ELSE IF Len(parts) = 1 THEN parts[1]
    ELSE parts[1] \o <<"\n">> \o JoinNewline(Tail(parts))

\* \w
IsWordChar(c) == IsLowerLetter(c) \/ IsUpperLetter(c) \/ c \in Digits \/ c = "_"

\* line 41: [.!?]\s*$ on a stripped, non-empty line
EndsSentence(line) == line[Len(line)] \in {".", "!", "?"}

\* line 41 with the punctuation looked for at the end of the next line
BlocksMergeOnNext(current, next_line) == EndsSentence(next_line)
\* line 41 left out: sentence punctuation does not stop the merging
BlocksMergeNever(current, next_line) == FALSE

\* line 41: the current line ends a sentence, so the next one is not merged
BlocksMerge(current, next_line) == EndsSentence(current)

\* lines 31-45: the inner loop at line i with the words collected so far;
\* gives the words and the line it stopped at
RECURSIVE MergeLoop(_, _, _)
MergeLoop(lines, i, words) ==
    IF i + 1 <= Len(lines)
    THEN LET next_line == Strip(lines[i + 1])
             next_words == SplitSpace(next_line)
             current_words == SplitSpace(Strip(lines[i]))
         IN  IF next_line = <<>> THEN [words |-> words, i |-> i]
             ELSE IF /\ (Len(current_words) <= 3 \/ Len(next_words) <= 3)
                     /\ ~BlocksMerge(Strip(lines[i]), next_line)
                  THEN MergeLoop(lines, i + 1, Append(words, next_line))
                  ELSE [words |-> words, i |-> i]
    ELSE [words |-> words, i |-> i]

\* line 48: re.sub(r" {2,}", " ", merged)
CollapseSpaces(s) ==
    LET keep == {i \in 1..Len(s) : ~(s[i] = " " /\ i > 1 /\ s[i - 1] = " ")}
        idx == SelectSeq([i \in 1..Len(s) |-> i], LAMBDA i : i \in keep)
    IN  [k \in 1..Len(idx) |-> s[idx[k]]]

\* lines 19-50: the outer loop from line i on
RECURSIVE CleanLoop(_, _, _)
CleanLoop(lines, i, cleaned_lines) ==
    IF i > Len(lines) THEN cleaned_lines
    ELSE LET line == Strip(lines[i])
         IN  IF line = <<>>
             THEN CleanLoop(lines, i + 1,
                      IF cleaned_lines # <<>> /\ cleaned_lines[Len(cleaned_lines)] # <<>>
                      THEN Append(cleaned_lines, <<>>)
                      ELSE cleaned_lines)
             ELSE LET m == MergeLoop(lines, i, <<line>>)
                      merged == CollapseSpaces(JoinSpace(m.words))
                  IN  CleanLoop(lines, m.i + 1, Append(cleaned_lines, merged))

\* line 54: re.sub(r"-\n(\w)", r"\1", text)
FixHyphenBreaks(s) ==
    LET cut == {i \in 1..Len(s) :
                   \/ (s[i] = "-" /\ i + 2 <= Len(s) /\ s[i + 1] = "\n" /\ IsWordChar(s[i + 2]))
                   \/ (s[i] = "\n" /\ i > 1 /\ i + 1 <= Len(s) /\ s[i - 1] = "-"
                          /\ IsWordChar(s[i + 1]))}
        idx == SelectSeq([i \in 1..Len(s) |-> i], LAMBDA i : i \notin cut)
    IN  [k \in 1..Len(idx) |-> s[idx[k]]]

\* line 56: re.sub(r"\n{3,}", "\n\n", text)
CollapseNewlines(s) ==
    LET drop == {i \in 1..Len(s) : i > 2 /\ s[i] = "\n" /\ s[i - 1] = "\n" /\ s[i - 2] = "\n"}
        idx == SelectSeq([i \in 1..Len(s) |-> i], LAMBDA i : i \notin drop)
    IN  [k \in 1..Len(idx) |-> s[idx[k]]]

\* lines 10-57
clean_text(raw) ==
    LET cleaned_lines == CleanLoop(SplitLines(raw), 1, <<>>)
    IN  Strip(CollapseNewlines(FixHyphenBreaks(JoinNewline(cleaned_lines))))

\* the lines the raw page texts are written with
RawLines == {
    <<>>,
    <<"D", "i", "t">>,
    <<"i", "s">>,
    <<"e", "e", "n", " ", "t", "e", "s", "t">>,
    <<"z", "i", "n", ".">>,
    <<"w", "o", "r", "-">>,
    <<"d", "e", "n">>,
    <<"a", " ", "b", " ", "c", " ", "d">>,
    <<"e", " ", "f", " ", "g", " ", "w", "o", "r", "-">>,
    <<"d", "e", "n", " ", "h", " ", "i", " ", "j">>,
    <<"x", "-", "y", " ", " ", "z">>,
    <<" ", "l", "o", "s", " ">>
}

RawTexts == {JoinNewline(ls) : ls \in UNION {[1..n -> RawLines] : n \in 0..MaxLines}}

CleanInit ==
    /\ raw_text \in RawTexts
    /\ cleaned = <<>>
    /\ tpc = "call"
    /\ OthersIdleForClean

\* lines 69 and 79
CleanTextCall ==
    /\ tpc = "call"
    /\ cleaned' = clean_text(raw_text)
    /\ tpc' = "done"
    /\ UNCHANGED raw_text
    /\ UNCHANGED notClean

CleanNext == CleanTextCall

SpecClean == CleanInit /\ [][CleanNext]_vars

\* ------------------------------------------------------------------------
\* Properties of clean_text
\* ------------------------------------------------------------------------
CleanDone == tpc = "done"

InLines == SplitLines(raw_text)
OutLines == SplitLines(cleaned)

\* a non-blank line of at most 3 words
ShortLine(line) == Strip(line) # <<>> /\ Len(SplitSpace(line)) <= 3

\* the input lines a..b are a run of short lines of which only the last may
\* end in ".", "!" or "?"
ShortRun(a, b) ==
    /\ a < b
    /\ \A k \in a..b : ShortLine(InLines[k])
    /\ \A k \in a..(b - 1) : ~EndsSentence(Strip(InLines[k]))

\* the lines a..b in order, separated by single spaces
RunAsProse(a, b) ==
    CollapseSpaces(JoinSpace([k \in 1..(b - a + 1) |-> Strip(InLines[a + k - 1])]))

\* C19: a run of consecutive non-blank lines of at most 3 words each, none
\* of which except possibly the last ends in ".", "!" or "?", is found on
\* one line of the output, in order and separated by single spaces.
C19_ShortRunOnOneLine ==
    CleanDone =>
        \A a \in 1..Len(InLines) : \A b \in 1..Len(InLines) :
            ShortRun(a, b) =>
                \E j \in 1..Len(OutLines) : IsIn(RunAsProse(a, b), OutLines[j])

\* three short lines, the last one closing the sentence, become one line
C19_Witness ==
    /\ CleanDone
    /\ Len(InLines) = 3
    /\ ShortRun(1, 3)
    /\ EndsSentence(Strip(InLines[3]))
    /\ Len(SplitSpace(InLines[2])) = 2
    /\ cleaned = RunAsProse(1, 3)

\* the last word of a line without its final hyphen, the first word of a line
WordBeforeHyphen(line) ==
    LET w == SplitSpace(line)[Len(SplitSpace(line))] IN SubSeq(w, 1, Len(w) - 1)
FirstWord(line) == SplitSpace(line)[1]

\* input line k ends with a hyphen and line k+1 starts with a word character
HyphenBreak(k) ==
    /\ k + 1 <= Len(InLines)
    /\ InLines[k] # <<>> /\ InLines[k][Len(InLines[k])] = "-"
    /\ InLines[k + 1] # <<>> /\ IsWordChar(InLines[k + 1][1])

\* C20: when an input line ends with a hyphen and the next line starts with
\* a word character, the two fragments are one word in the output, without
\* hyphen, line break or space; a hyphen inside a line stays as it is.
C20_HyphenBreakRejoined ==
    CleanDone =>
        /\ \A k \in 1..Len(InLines) :
               HyphenBreak(k) =>
                   IsIn(WordBeforeHyphen(InLines[k]) \o FirstWord(InLines[k + 1]), cleaned)
        /\ \A i \in 2..(Len(raw_text) - 1) :
               (raw_text[i] = "-" /\ IsWordChar(raw_text[i - 1]) /\ IsWordChar(raw_text[i + 1]))
                   => IsIn(SubSeq(raw_text, i - 1, i + 1), cleaned)

\* ------------------------------------------------------------------------
\* chunk_pages: how a closed buffer seeds the next one
\* ------------------------------------------------------------------------

\* a step of the for loop that closes the buffer (lines 125-138)
ClosingStep ==
    /\ cpc = "loop"
    /\ cpc' = "loop"
    /\ pi <= Len(para_list)
    /\ chunks' # chunks

TriggeringPara == para_list[pi][2]

\* C24 as claimed: when a chunk is closed, the next buffer is the last
\* `overlap` characters of the closed buffer, a blank line and the
\* triggering paragraph whenever the closed buffer has at least `overlap`
\* characters (and overlap > 0), and the triggering paragraph alone otherwise.
C24_SeedAtLeastOverlap ==
    [][ClosingStep =>
          current_text' =
              IF overlap > 0 /\ Len(current_text) >= overlap
              THEN Tail_(current_text, overlap) \o <<"\n", "\n">> \o TriggeringPara
              ELSE TriggeringPara]_vars

\* C24 amended: the tail is carried only when the closed buffer is strictly
\* longer than `overlap`; a buffer of exactly `overlap` characters (or
\* fewer, or overlap 0) seeds the next buffer with the paragraph alone.
C24_SeedMoreThanOverlap ==
    [][ClosingStep =>
          current_text' =
              IF overlap > 0 /\ Len(current_text) > overlap
              THEN Tail_(current_text, overlap) \o <<"\n", "\n">> \o TriggeringPara
              ELSE TriggeringPara]_vars

\* a run that closed a buffer of exactly `overlap` characters without
\* carrying anything, and a longer one with its tail carried
C24_Witness ==
    /\ ChunkDone
    /\ overlap > 0
    /\ \E k \in 1..(Len(chunks) - 1) :
           /\ carried[k] = <<>>
           /\ Len(chunks[k].content) = overlap
           /\ carried[k + 1] = <<>>
    /\ \E k \in 1..(Len(chunks) - 1) :
           /\ Len(carried[k + 1]) = overlap
           /\ IsPrefix(carried[k + 1] \o <<"\n", "\n">>, chunks[k + 1].content)

\* ------------------------------------------------------------------------
\* chunk_pages: the length of a chunk
\* ------------------------------------------------------------------------

LongestPara == Max({0} \cup {Len(para_list[n][2]) : n \in 1..Len(para_list)})

\* C25: a chunk is at most chunk_size long, except a chunk with exactly one
\* fresh paragraph p, which is at most overlap + 2 + len(p) long; when every
\* paragraph is shorter than chunk_size no chunk is longer than chunk_size
\* + overlap + the length of one paragraph.
C25_ChunkLength ==
    ChunkDone =>
        \A k \in 1..Len(chunks) :
            /\ \/ Len(chunks[k].content) <= chunk_size
               \/ /\ Len(FreshParas(k)) = 1
                  /\ Len(chunks[k].content) <= overlap + 2 + Len(FreshParas(k)[1])
            /\ LongestPara < chunk_size =>
                   Len(chunks[k].content) <= chunk_size + overlap + LongestPara

\* a run with a chunk of several fresh paragraphs, and a chunk longer than
\* chunk_size made of the carried tail and one paragraph shorter than
\* chunk_size
C25_Witness ==
    /\ ChunkDone
    /\ LongestPara < chunk_size
    /\ \E k \in 1..Len(chunks) : Len(FreshParas(k)) >= 2
    /\ \E k \in 2..Len(chunks) :
           /\ carried[k] # <<>>
           /\ Len(FreshParas(k)) = 1
           /\ Len(chunks[k].content) > chunk_size

\* ------------------------------------------------------------------------
\* clean_text: the look-ahead loop
\* ------------------------------------------------------------------------

\* lines 19-50: the input lines each entry of cleaned_lines is made of, as
\* the first and last value of i in the inner loop
RECURSIVE MergeGroups(_, _)
MergeGroups(lines, i) ==
    IF i > Len(lines) THEN <<>>
    ELSE IF Strip(lines[i]) = <<>> THEN MergeGroups(lines, i + 1)
    ELSE LET m == MergeLoop(lines, i, <<Strip(lines[i])>>)
         IN  <<[first |-> i, last |-> m.i]>> \o MergeGroups(lines, m.i + 1)

WordsOf(line) == Len(SplitSpace(Strip(line)))

\* the line accumulated from the input lines a..k
Accumulated(a, k) == JoinSpace([n \in 1..(k - a + 1) |-> Strip(InLines[a + n - 1])])

\* the merge condition with the word count taken of the accumulated line
MergeByAccumulated(a, k) ==
    /\ WordsOf(Accumulated(a, k)) <= 3 \/ WordsOf(InLines[k + 1]) <= 3
    /\ ~EndsSentence(Accumulated(a, k))

\* the merge condition with the word count taken of the input line merged last
MergeByLastLine(a, k) ==
    /\ WordsOf(InLines[k]) <= 3 \/ WordsOf(InLines[k + 1]) <= 3
    /\ ~EndsSentence(Accumulated(a, k))

\* every group of merged input lines was extended exactly when Cond held:
\* each line after the first was merged under Cond, and the group ends at the
\* end of the text, before a blank line or where Cond fails
GroupsFollow(Cond(_, _)) ==
    \A g \in 1..Len(MergeGroups(InLines, 1)) :
        LET a == MergeGroups(InLines, 1)[g].first
            b == MergeGroups(InLines, 1)[g].last
        IN  /\ \A k \in a..(b - 1) : Strip(InLines[k + 1]) # <<>> /\ Cond(a, k)
            /\ \/ b = Len(InLines)
               \/ Strip(InLines[b + 1]) = <<>>
               \/ ~Cond(a, b)

\* C26 as claimed: the next non-blank line is merged exactly when the
\* accumulated line or the next line has at most 3 words and the accumulated
\* line does not end in ".", "!" or "?"; a blank line always stops the merging.
C26_MergeByAccumulatedLine ==
    CleanDone => GroupsFollow(MergeByAccumulated)

\* C26 amended: the word count is taken of the input line merged last, not
\* of the accumulated line.
C26_MergeByLastLine ==
    CleanDone => GroupsFollow(MergeByLastLine)

\* a line of four words, a short line and a line of four words are merged
\* into one: the accumulated line has five words when the third is merged
C26_Witness ==
    /\ CleanDone
    /\ Len(InLines) = 3
    /\ WordsOf(InLines[1]) > 3 /\ WordsOf(InLines[2]) <= 3 /\ WordsOf(InLines[3]) > 3
    /\ MergeGroups(InLines, 1) = <<[first |-> 1, last |-> 3]>>
    /\ OutLines = <<Accumulated(1, 3)>>

\* ------------------------------------------------------------------------
\* _extract_field_period: the order of the grammars
\* ------------------------------------------------------------------------

\* the matches of the four patterns anywhere in the text
BothYearsMatch == Search(BothYearsAt, period_text)
SameYearMatch == Search(SameYearAt, period_text)
NoYearMatch == Search(NoYearAt, period_text)
SingleMatch == Search(DateSingleAt, period_text)

\* the position in the text where the written range (or single date) starts
RangeStart == Len(period_src.prefix) + 1
EndOfPrefix == Len(period_src.prefix)

\* C27: the result is that of the first grammar that succeeds, in the order
\* range with both years, range with a trailing year, range without a year
\* (only with a fallback year), single date, wherever in the text the matches
\* of the later grammars are; (None, None) when none succeeds.
C27_FirstGrammarWins ==
    PeriodDone =>
        /\ BothYearsMatch.ok => field_period = BothYearsResult(BothYearsMatch)
        /\ (~BothYearsMatch.ok /\ SameYearMatch.ok) =>
               field_period = SameYearResult(SameYearMatch)
        /\ (~BothYearsMatch.ok /\ ~SameYearMatch.ok /\ NoYearMatch.ok
               /\ fallback_year # None) =>
               field_period = NoYearResult(NoYearMatch, fallback_year)
        /\ (~BothYearsMatch.ok /\ ~SameYearMatch.ok
               /\ ~(NoYearMatch.ok /\ fallback_year # None) /\ SingleMatch.ok) =>
               field_period = SingleResult(SingleMatch)
        /\ (~BothYearsMatch.ok /\ ~SameYearMatch.ok
               /\ ~(NoYearMatch.ok /\ fallback_year # None) /\ ~SingleMatch.ok) =>
               Returned(NoDate, NoDate)
        \* in terms of the text written: an older range with one year, or an
        \* older single date, in front of a range with both years does not win
        /\ (period_src.form = "both" /\ BothYearsMatch.ok
               /\ SourceDatesValid(period_src.first.y[2], period_src.second.y[2])) =>
               Returned(DateOf(period_src.first, period_src.first.y[2]),
                        DateOf(period_src.second, period_src.second.y[2]))

\* the range with both years is returned although a range with one year
\* stands earlier in the text (and single dates match as well)
C27_Witness ==
    /\ PeriodDone
    /\ period_src.form = "both"
    /\ period_src.prefix = RangePrefix
    /\ SameYearMatch.ok /\ SameYearMatch.next <= EndOfPrefix
    /\ SingleMatch.ok /\ SingleMatch.next <= EndOfPrefix
    /\ BothYearsMatch.ok /\ BothYearsMatch.next > RangeStart
    /\ Returned(<<2026, 1, 9>>, <<2027, 1, 31>>)

\* ------------------------------------------------------------------------
\* match_party: the empty string in the substring tier
\* ------------------------------------------------------------------------

\* the label and the party share a non-empty string: the label equals the
\* name or the abbreviation, the alias of the label does, or one contains
\* the other
NonEmptyRelation(p) ==
    /\ Label # <<>>
    /\ \/ Tier2(p)
       \/ \E t \in {Lower(p.name), Lower(p.abbreviation)} :
              t # <<>> /\ (IsIn(t, Label) \/ IsIn(Label, t))

\* C30: an empty or whitespace-only label gives None, and a party whose
\* abbreviation is the empty string is returned only for a label that
\* equals, is an alias of, or shares a non-empty substring relation with
\* its name.
C30_NoEmptySubstringMatch ==
    PartyDone =>
        /\ Label = <<>> => party_id = None
        /\ \A k \in 1..Len(db_parties) :
               (db_parties[k].abbreviation = <<>> /\ party_id = db_parties[k].id)
                   => NonEmptyRelation(db_parties[k])

\* ------------------------------------------------------------------------
\* _extract_last_name: the surname key
\* ------------------------------------------------------------------------

\* a token that, with its "." removed, is one to three upper-case letters
InitialsToken(tok) ==
    LET letters == SelectSeq(tok, LAMBDA c : c # ".")
    IN  /\ Len(letters) \in 1..3
        /\ \A i \in 1..Len(letters) : IsUpperLetter(letters[i])

NameTokens(name) == SplitSpace(Strip(name))

\* the number of initials tokens the name starts with
LeadingInitials(name) ==
    Max({k \in 0..Len(NameTokens(name)) :
            \A j \in 1..k : InitialsToken(NameTokens(name)[j])})

\* the key as the claim builds it
SurnameKey(name) ==
    LET rest == DropFirst(NameTokens(name), LeadingInitials(name))
        kept == IF Len(rest) >= 2 /\ IsUpperLetter(rest[1][1]) /\ ~InitialsToken(rest[1])
                THEN Tail(rest) ELSE rest
    IN  Lower(JoinSpace(kept))

NamesAtHand ==
    {notubiz_person_name} \cup {db_candidates[k].name : k \in 1..Len(db_candidates)}

\* C28: the surname key is the name without its leading initials tokens and
\* without one further leading token when that starts with an upper-case
\* letter and at least two tokens remain, joined by single spaces in lower
\* case: "Melanie van der Horst" gives "van der horst", a single remaining
\* token is kept, and no remaining token gives the empty string.
C28_SurnameKey ==
    CandidateDone =>
        /\ \A name \in NamesAtHand : _extract_last_name(name) = SurnameKey(name)
        /\ \A k \in 1..Len(db_candidates) :
               db_candidates[k].name = FullName(<<"M", "e", "l", "a", "n", "i", "e">>,
                                                <<"v", "a", "n", " ", "d", "e", "r", " ", "H", "o", "r", "s", "t">>)
                   => _extract_last_name(db_candidates[k].name)
                          = <<"v", "a", "n", " ", "d", "e", "r", " ", "h", "o", "r", "s", "t">>
        /\ notubiz_person_name = <<"R", "o", "b">>
               => _extract_last_name(notubiz_person_name) = <<"r", "o", "b">>
        /\ LeadingInitials(notubiz_person_name) = Len(NameTokens(notubiz_person_name))
               => _extract_last_name(notubiz_person_name) = <<>> /\ candidate_id = None
        /\ candidate_id # None =>
               \E k \in 1..Len(db_candidates) :
                   /\ candidate_id = db_candidates[k].id
                   /\ SurnameKey(db_candidates[k].name) = SurnameKey(notubiz_person_name)

\* two initials tokens are dropped and the three-word surname is matched with
\* the candidate stored under a given name
C28_Witness ==
    /\ CandidateDone
    /\ notubiz_person_name = InitialsName(<<"M", ".", " ", "S", ".">>,
                                          <<"v", "a", "n", " ", "d", "e", "r", " ", "H", "o", "r", "s", "t">>)
    /\ LeadingInitials(notubiz_person_name) = 2
    /\ Len(db_candidates) = 2
    /\ db_candidates[2].name = FullName(<<"M", "e", "l", "a", "n", "i", "e">>,
                                        <<"v", "a", "n", " ", "d", "e", "r", " ", "H", "o", "r", "s", "t">>)
    /\ SurnameKey(db_candidates[1].name) # SurnameKey(notubiz_person_name)
    /\ candidate_id = db_candidates[2].id

\* ------------------------------------------------------------------------
\* _complete (app/services/llm.py)
\* ------------------------------------------------------------------------

\* line 10
_RETRY_DELAYS == <<2, 5, 10>>

\* line 28: [0] + _RETRY_DELAYS
AttemptDelays == <<0>> \o _RETRY_DELAYS

\* what litellm.completion raises: the two classes named at line 35 and
\* others it is documented to raise
LlmErrors == {"InternalServerError", "ServiceUnavailableError",
              "RateLimitError", "Timeout", "AuthenticationError"}

\* line 35 catching every exception
CaughtAlways(exc) == TRUE

\* line 35: the except clause
CaughtForRetry(exc) == exc \in {"InternalServerError", "ServiceUnavailableError"}

\* response.choices[0].message.content of a call that succeeds
LlmContents == {<<"J", "a">>, <<"N", "e", "e">>}

SystemPrompts == {<<>>, <<"s", "y", "s">>}
UserPrompt == <<"v", "r", "a", "a", "g">>

NoResult == [kind |-> "none", value |-> <<>>]
NoExc == <<>>

\* lines 22-25
BuildMessages(system, prompt) ==
    (IF system # <<>> THEN <<[role |-> "system", content |-> system]>> ELSE <<>>)
        \o <<[role |-> "user", content |-> prompt]>>

\* lines 29-31: the sleep before the call of this iteration
SleepBefore(done, delays) ==
    IF AttemptDelays[done + 1] # 0 THEN Append(delays, AttemptDelays[done + 1]) ELSE delays

LlmInit ==
    /\ llm_system \in SystemPrompts
    /\ llm_messages = <<>>
    /\ attempt = 0
    /\ slept = <<>>
    /\ last_exc = NoExc
    /\ llm_result = NoResult
    /\ lpc = "call"
    /\ llm_log = <<>>
    /\ OthersIdleForLlm

\* lines 22-27
CompleteBuild ==
    /\ lpc = "call"
    /\ llm_messages' = BuildMessages(llm_system, UserPrompt)
    /\ last_exc' = NoExc
    /\ lpc' = "loop"
    /\ UNCHANGED <<llm_system, attempt, slept, llm_result, llm_log>>
    /\ UNCHANGED notLlm

\* lines 28-34: an iteration whose call succeeds
CompleteReturns ==
    /\ lpc = "loop"
    /\ attempt < Len(AttemptDelays)
    /\ \E content \in LlmContents :
           /\ llm_result' = [kind |-> "returned", value |-> content]
           /\ llm_log' = Append(llm_log, "ok")
    /\ slept' = SleepBefore(attempt, slept)
    /\ lpc' = "done"
    /\ UNCHANGED <<llm_system, llm_messages, attempt, last_exc>>
    /\ UNCHANGED notLlm

\* lines 28-36: an iteration whose call raises an exception that is caught
CompleteCatches ==
    /\ lpc = "loop"
    /\ attempt < Len(AttemptDelays)
    /\ \E exc \in LlmErrors :
           /\ CaughtForRetry(exc)
           /\ last_exc' = exc
           /\ llm_log' = Append(llm_log, exc)
    /\ slept' = SleepBefore(attempt, slept)
    /\ attempt' = attempt + 1
    /\ UNCHANGED <<llm_system, llm_messages, llm_result, lpc>>
    /\ UNCHANGED notLlm

\* lines 28-35: an iteration whose call raises an exception that is not caught
CompletePropagates ==
    /\ lpc = "loop"
    /\ attempt < Len(AttemptDelays)
    /\ \E exc \in LlmErrors :
           /\ ~CaughtForRetry(exc)
           /\ llm_result' = [kind |-> "raised", value |-> exc]
           /\ llm_log' = Append(llm_log, exc)
    /\ slept' = SleepBefore(attempt, slept)
    /\ lpc' = "done"
    /\ UNCHANGED <<llm_system, llm_messages, attempt, last_exc>>
    /\ UNCHANGED notLlm

\* line 37: the loop is exhausted
CompleteRaisesLast ==
    /\ lpc = "loop"
    /\ attempt = Len(AttemptDelays)
    /\ llm_result' = [kind |-> "raised", value |-> last_exc]
    /\ lpc' = "done"
    /\ UNCHANGED <<llm_system, llm_messages, attempt, slept, last_exc, llm_log>>
    /\ UNCHANGED notLlm

LlmNext ==
    \/ CompleteBuild
    \/ CompleteReturns
    \/ CompleteCatches
    \/ CompletePropagates
    \/ CompleteRaisesLast

\* litellm.completion and time.sleep return or raise, so a call of _complete
\* that can take a step takes one
SpecLlm == LlmInit /\ [][LlmNext]_vars /\ WF_vars(LlmNext)

\* ------------------------------------------------------------------------
\* Properties of _complete
\* ------------------------------------------------------------------------
LlmDone == lpc = "done"

Overloads == {"InternalServerError", "ServiceUnavailableError"}

\* the delays slept before the first n calls
DelaysBefore(n) == IF n <= 1 THEN <<>> ELSE SubSeq(<<2, 5, 10>>, 1, n - 1)

\* at most 4 calls, each retry after an overload error and after the next
\* of the delays 2, 5, 10; a result ends the calls
LlmSafe ==
    /\ Len(llm_log) <= 4
    /\ slept = DelaysBefore(Len(llm_log))
    /\ \A k \in 1..(Len(llm_log) - 1) : llm_log[k] \in Overloads
    /\ LlmDone =>
           \/ /\ llm_result.kind = "returned"
              /\ llm_log[Len(llm_log)] = "ok"
           \/ /\ llm_result.kind = "raised"
              /\ llm_result.value \notin Overloads
              /\ llm_log[Len(llm_log)] = llm_result.value
           \/ /\ llm_result.kind = "raised"
              /\ Len(llm_log) = 4
              /\ llm_log[4] \in Overloads
              /\ llm_result.value = llm_log[4]
    /\ ~LlmDone => llm_result = NoResult /\ \A k \in 1..Len(llm_log) : llm_log[k] \in Overloads

\* C29: _complete calls the LLM at most 4 times, waiting 2, 5 and 10 seconds
\* before the retries; it returns the first successful response, retries
\* only after InternalServerError or ServiceUnavailableError, lets any other
\* exception propagate at once, raises the last error after the 4th
\* overload error in a row, and always terminates.
C29_BoundedRetry == []LlmSafe /\ <>LlmDone

\* four overload errors in a row: three sleeps, then the last error is raised
C29_Witness ==
    /\ LlmDone
    /\ Len(llm_log) = 4
    /\ slept = <<2, 5, 10>>
    /\ llm_log[3] = "InternalServerError"
    /\ llm_result = [kind |-> "raised", value |-> "ServiceUnavailableError"]

\* ------------------------------------------------------------------------
\* upsert_motion (scripts/fetch_motions.py)
\* ------------------------------------------------------------------------

\* Counter()[label] += 1
Increment(counter, label) ==
    [l \in DOMAIN counter \cup {label} |->
        IF l = label
        THEN (IF l \in DOMAIN counter THEN counter[l] ELSE 0) + 1
        ELSE counter[l]]

\* lines 100-101 and 111-112 over the entries from position k on
RECURSIVE CountUnmatched(_, _, _)
CountUnmatched(counter, rows, k) ==
    IF k > Len(rows) THEN counter
    ELSE CountUnmatched(
             IF rows[k].matched = None THEN Increment(counter, rows[k].label) ELSE counter,
             rows, k + 1)

\* line 64: the position (id) of the motion with this notubiz_item_id, or None
FindMotion(ms, item_id) ==
    IF \E k \in 1..Len(ms) : ms[k].notubiz_item_id = item_id
    THEN Min({k \in 1..Len(ms) : ms[k].notubiz_item_id = item_id})
    ELSE None

\* lines 78-79 left out: the old associations stay
KeepAssociations(rows, motion_id) == rows

\* lines 78-79: query(...).filter(motion_id == motion.id).delete()
DeleteAssociations(rows, motion_id) == SelectSeq(rows, LAMBDA r : r.motion_id # motion_id)

\* lines 98-106 adding a row only for a label that was matched
LinkMatchedParties(motion_id, entries, parties) ==
    LET all == [k \in 1..Len(entries) |->
                   [motion_id |-> motion_id,
                    party_id |-> match_party(entries[k].name, parties),
                    notubiz_party_name |-> entries[k].name]]
    IN  SelectSeq(all, LAMBDA r : r.party_id # None)

\* lines 98-106: the MotionParty rows added for the parties of a parsed motion
LinkParties(motion_id, entries, parties) ==
    [k \in 1..Len(entries) |->
        [motion_id |-> motion_id,
         party_id |-> match_party(entries[k].name, parties),
         notubiz_party_name |-> entries[k].name]]

\* lines 109-118: the MotionCandidate rows added for the submitters
LinkCandidates(motion_id, entries, candidates) ==
    [k \in 1..Len(entries) |->
        [motion_id |-> motion_id,
         candidate_id |-> match_candidate(entries[k].name, entries[k].person_id, candidates),
         notubiz_person_name |-> entries[k].name,
         notubiz_person_id |-> entries[k].person_id]]

PartyOutcomes(rows) ==
    [k \in 1..Len(rows) |-> [label |-> rows[k].notubiz_party_name, matched |-> rows[k].party_id]]
CandidateOutcomes(rows) ==
    [k \in 1..Len(rows) |-> [label |-> rows[k].notubiz_person_name, matched |-> rows[k].candidate_id]]

\* the parties and candidates main() loads for matching (lines 134-140)
MotionDbParties == <<
    [id |-> 3, name |-> <<"G", "r", "o", "e", "n", "L", "i", "n", "k", "s">>,
     abbreviation |-> <<"G", "L">>],
    [id |-> 5, name |-> <<"V", "o", "l", "t", " ", "A", "m", "s", "t", "e", "r", "d", "a", "m">>,
     abbreviation |-> <<"V", "O", "L", "T">>]
>>
MotionDbCandidates == <<
    [id |-> 1, name |-> FullName(<<"R", "o", "b">>, <<"H", "a", "v", "e", "l", "a", "a", "r">>)],
    [id |-> 4, name |-> FullName(<<"M", "e", "l", "a", "n", "i", "e">>, <<"v", "a", "n", " ", "d", "e", "r", " ", "H", "o", "r", "s", "t">>)]
>>

\* what parse_motion_attributes gives for a module item
ItemIds == {7001, 7002}
Titles == {<<"M", "o", "t", "i", "e", " ", "A">>, <<"M", "o", "t", "i", "e", " ", "B">>}
KnownParty == [name |-> <<"G", "r", "o", "e", "n", "L", "i", "n", "k", "s">>]
UnknownParty == [name |-> <<"L", "i", "j", "s", "t", " ", "X">>]
KnownSubmitter ==
    [name |-> <<"R", ".", "B", ".", " ", "H", "a", "v", "e", "l", "a", "a", "r">>, person_id |-> 4711]
UnknownSubmitter ==
    [name |-> <<"J", ".", " ", "B", "r", "o", "e", "r", "s", "e", "n">>, person_id |-> None]
PartyEntryLists == {<<>>, <<UnknownParty, KnownParty>>, <<UnknownParty, UnknownParty>>}
SubmitterLists == {<<KnownSubmitter>>, <<UnknownSubmitter, KnownSubmitter>>}
ParsedMotions == [title : Titles, parties : PartyEntryLists, submitters : SubmitterLists]

NoCounter == <<>>
NotParsed == <<>>

MotionInit ==
    /\ motions = <<>>
    /\ motion_parties = <<>>
    /\ motion_candidates = <<>>
    /\ unmatched_parties = NoCounter
    /\ unmatched_candidates = NoCounter
    /\ upserts = 0
    /\ upc = "ready"
    /\ last_parsed = [i \in ItemIds |-> NotParsed]
    /\ db_parties = MotionDbParties
    /\ db_candidates = MotionDbCandidates
    /\ OthersIdleForMotion

\* lines 97-118 for the motion with the given id
LinkAssociations(motion_id, parsed_motion, old_parties, old_candidates) ==
    LET new_parties == LinkParties(motion_id, parsed_motion.parties, db_parties)
        new_candidates == LinkCandidates(motion_id, parsed_motion.submitters, db_candidates)
    IN  /\ motion_parties' = old_parties \o new_parties
        /\ motion_candidates' = old_candidates \o new_candidates
        /\ unmatched_parties' =
               CountUnmatched(unmatched_parties, PartyOutcomes(new_parties), 1)
        /\ unmatched_candidates' =
               CountUnmatched(unmatched_candidates, CandidateOutcomes(new_candidates), 1)

\* lines 64, 80-118: no motion has this notubiz_item_id yet
UpsertMotionInsert ==
    /\ upc = "ready"
    /\ upserts < MaxUpserts
    /\ \E item_id \in ItemIds, parsed_motion \in ParsedMotions :
           /\ FindMotion(motions, item_id) = None
           /\ motions' = Append(motions,
                  [notubiz_item_id |-> item_id, title |-> parsed_motion.title])
           /\ LinkAssociations(Len(motions) + 1, parsed_motion,
                               motion_parties, motion_candidates)
           /\ last_parsed' = [last_parsed EXCEPT ![item_id] = parsed_motion]
    /\ upserts' = upserts + 1
    /\ UNCHANGED upc
    /\ UNCHANGED notMotion

\* lines 64-79, 97-118: the motion exists, its associations are replaced
UpsertMotionUpdate ==
    /\ upc = "ready"
    /\ upserts < MaxUpserts
    /\ \E item_id \in ItemIds, parsed_motion \in ParsedMotions :
           LET id == FindMotion(motions, item_id)
           IN  /\ id # None
               /\ motions' = [motions EXCEPT ![id].title =
                      IF parsed_motion.title # <<>> THEN parsed_motion.title ELSE @]
               /\ LinkAssociations(id, parsed_motion,
                                   DeleteAssociations(motion_parties, id),
                                   DeleteAssociations(motion_candidates, id))
               /\ last_parsed' = [last_parsed EXCEPT ![item_id] = parsed_motion]
    /\ upserts' = upserts + 1
    /\ UNCHANGED upc
    /\ UNCHANGED notMotion

MotionNext == UpsertMotionInsert \/ UpsertMotionUpdate

SpecMotion == MotionInit /\ [][MotionNext]_vars

\* ------------------------------------------------------------------------
\* fetch_and_store_polls and _update_party_cache (app/services/polls.py)
\* ------------------------------------------------------------------------

\* dates are <<year, month, day>>
DateLess(a, b) ==
    \/ a[1] < b[1]
    \/ a[1] = b[1] /\ a[2] < b[2]
    \/ a[1] = b[1] /\ a[2] = b[2] /\ a[3] < b[3]

\* date.today() at line 340: the day of the run, after every field period
Today == <<2026, 3, 1>>
January == <<2026, 1, 31>>
February == <<2026, 2, 28>>

\* the parties of the election (line 318)
PollDbParties == <<
    [id |-> 1, name |-> <<"G", "r", "o", "e", "n", "L", "i", "n", "k", "s">>,
     abbreviation |-> <<"G", "L">>],
    [id |-> 5, name |-> <<"D", "6", "6">>,
     abbreviation |-> <<"D", "6", "6">>]
>>

\* entries of config["polling_sources"]
Url1 == <<"u", "r", "l", "1">>
Url2 == <<"u", "r", "l", "2">>
PollingSource(url, type, enabled) == [url |-> url, type |-> type, enabled |-> enabled]
SourceConfigs == {
    <<>>,
    <<PollingSource(Url1, "onderzoek_amsterdam", TRUE)>>,
    <<PollingSource(Url1, "onderzoek_amsterdam", TRUE), PollingSource(Url2, "onderzoek_amsterdam", TRUE)>>,
    <<PollingSource(Url2, "onderzoek_amsterdam", FALSE), PollingSource(Url1, "onderzoek_amsterdam", TRUE)>>,
    <<PollingSource(Url1, "onderzoek_amsterdam", TRUE), PollingSource(Url2, "peil", TRUE)>>
}

\* line 328: _SCRAPERS.get(source_type)
HasScraper(type) == type = "onderzoek_amsterdam"

\* rows as _parse_results_from_values returns them
ResultRow(label, pct, seats) == [party_name_raw |-> label, percentage |-> pct, seats |-> seats]
LabelGroenLinks == <<"G", "r", "o", "e", "n", "L", "i", "n", "k", "s">>
LabelD66 == <<"D", "6", "6">>
LabelVolt == <<"V", "o", "l", "t">>
ResultLists == {
    <<>>,
    <<ResultRow(LabelGroenLinks, 251, 10), ResultRow(LabelVolt, 50, 2)>>,
    <<ResultRow(LabelGroenLinks, 251, None)>>,
    <<ResultRow(LabelGroenLinks, None, 12), ResultRow(LabelD66, None, 5)>>
}

\* what a scraper returns
ScrapedData ==
    [field_start : {NoDate}, field_end : {NoDate, January, February},
     published_at : {NoDate}, sample_size : {None}, results : ResultLists]

\* lines 347-355: the id of the poll of this source and field_end, or None
FindPoll(ps, url, field_end) ==
    IF \E k \in 1..Len(ps) : ps[k].source_url = url /\ ps[k].field_end = field_end
    THEN Min({k \in 1..Len(ps) : ps[k].source_url = url /\ ps[k].field_end = field_end})
    ELSE None

\* lines 359-363 and 368-377: the columns of the Poll row
PollRow(source, data, field_end) ==
    [source_url |-> source.url, source_type |-> source.type,
     field_start |-> data.field_start, field_end |-> field_end,
     published_at |-> data.published_at, sample_size |-> data.sample_size]

\* lines 383-393 adding a row only for a label that was matched
StoreMatchedResults(poll_id, rows, parties) ==
    LET all == [k \in 1..Len(rows) |->
                   [poll_id |-> poll_id,
                    party_id |-> match_party_name(rows[k].party_name_raw, parties),
                    party_name_raw |-> rows[k].party_name_raw,
                    percentage |-> rows[k].percentage,
                    seats |-> rows[k].seats]]
    IN  SelectSeq(all, LAMBDA r : r.party_id # None)

\* lines 383-393: the PollResult rows added for the rows of a poll
StoreResults(poll_id, rows, parties) ==
    [k \in 1..Len(rows) |->
        [poll_id |-> poll_id,
         party_id |-> match_party_name(rows[k].party_name_raw, parties),
         party_name_raw |-> rows[k].party_name_raw,
         percentage |-> rows[k].percentage,
         seats |-> rows[k].seats]]

\* line 365: query(PollResult).filter(poll_id == poll.id).delete()
DeleteResults(rows, poll_id) == SelectSeq(rows, LAMBDA r : r.poll_id # poll_id)

\* lines 416-421: the polls with the greatest field_end; ORDER BY field_end
\* DESC leaves the order of equal dates to the database
NewestPolls(ps) ==
    {k \in 1..Len(ps) : \A j \in 1..Len(ps) : ~DateLess(ps[k].field_end, ps[j].field_end)}

\* lines 425-429: the results of the poll that have a seat value
SeatResults(rows, poll_id) ==
    SelectSeq(rows, LAMBDA r : r.poll_id = poll_id /\ r.seats # None)

\* line 434: seats_by_party[party_id], the last row of the party winning
SeatsByParty(results, pid) ==
    LET at == {k \in 1..Len(results) : results[k].party_id = pid}
    IN  IF pid = None \/ at = {} THEN None ELSE results[Max(at)].seats

\* lines 416-421 looking only at the polls that have a seat value
NewestSeatPolls(ps, rows) ==
    {k \in 1..Len(ps) :
        /\ SeatResults(rows, k) # <<>>
        /\ \A j \in 1..Len(ps) :
               SeatResults(rows, j) # <<>> => ~DateLess(ps[k].field_end, ps[j].field_end)}

\* lines 411-444 for the poll the query returned
CacheFrom(cache, ps, rows, newest, parties) ==
    LET results == SeatResults(rows, newest)
    IN  IF results = <<>> THEN cache
        ELSE [id \in DOMAIN cache |->
                 IF SeatsByParty(results, id) # None
                 THEN [polled_seats |-> SeatsByParty(results, id),
                       poll_updated_at |-> ps[newest].field_end]
                 ELSE cache[id]]

NoCache == [polled_seats |-> None, poll_updated_at |-> NoDate]
PartyIdsOf(parties) == {parties[k].id : k \in 1..Len(parties)}

\* the tables before the call: empty, or holding the January poll of the
\* first source as an earlier call stored it
EarlierResults == <<ResultRow(LabelGroenLinks, 251, 10), ResultRow(LabelVolt, 50, 2)>>
EarlierPolls ==
    <<[source_url |-> Url1, source_type |-> "onderzoek_amsterdam", field_start |-> NoDate,
       field_end |-> January, published_at |-> NoDate, sample_size |-> None]>>

PollsInit ==
    /\ db_parties = PollDbParties
    /\ \/ /\ polls = <<>>
          /\ poll_results = <<>>
          /\ party_cache = [id \in PartyIdsOf(PollDbParties) |-> NoCache]
       \/ /\ polls = EarlierPolls
          /\ poll_results = StoreResults(1, EarlierResults, PollDbParties)
          /\ party_cache =
                 CacheFrom([id \in PartyIdsOf(PollDbParties) |-> NoCache], EarlierPolls,
                           StoreResults(1, EarlierResults, PollDbParties), 1, PollDbParties)
    /\ sources = <<>>
    /\ source_i = 0
    /\ stored_polls = <<>>
    /\ stored_data = <<>>
    /\ ppc = "ready"
    /\ OthersIdleForPolls

\* lines 313-320
FetchBegin ==
    /\ ppc = "ready"
    /\ sources' \in SourceConfigs
    /\ stored_polls' = <<>>
    /\ stored_data' = <<>>
    /\ source_i' = 1
    /\ ppc' = IF sources' = <<>> THEN "returned" ELSE "loop"
    /\ UNCHANGED <<polls, poll_results, party_cache>>
    /\ UNCHANGED notPolls

InLoop == ppc = "loop" /\ source_i <= Len(sources)

\* lines 323-331: a disabled source or one without a scraper is skipped
SkipSource ==
    /\ InLoop
    /\ ~sources[source_i].enabled \/ ~HasScraper(sources[source_i].type)
    /\ source_i' = source_i + 1
    /\ UNCHANGED <<sources, polls, poll_results, party_cache, stored_polls, stored_data,
                   ppc>>
    /\ UNCHANGED notPolls

\* lines 333-337: the scraper raises
ScrapeRaises ==
    /\ InLoop
    /\ sources[source_i].enabled /\ HasScraper(sources[source_i].type)
    /\ source_i' = source_i + 1
    /\ UNCHANGED <<sources, polls, poll_results, party_cache, stored_polls, stored_data,
                   ppc>>
    /\ UNCHANGED notPolls

\* line 340
FieldEndOf(data) == IF data.field_end # NoDate THEN data.field_end ELSE Today

\* lines 333-379, 381-401: a poll of a new edition is inserted with its results
StoreNewPoll ==
    /\ InLoop
    /\ sources[source_i].enabled /\ HasScraper(sources[source_i].type)
    /\ \E data \in ScrapedData :
           /\ FindPoll(polls, sources[source_i].url, FieldEndOf(data)) = None
           /\ polls' = Append(polls, PollRow(sources[source_i], data, FieldEndOf(data)))
           /\ poll_results' =
                  poll_results \o StoreResults(Len(polls) + 1, data.results, db_parties)
           /\ stored_polls' = Append(stored_polls, Len(polls) + 1)
           /\ stored_data' = Append(stored_data, data.results)
    /\ source_i' = source_i + 1
    /\ UNCHANGED <<sources, party_cache, ppc>>
    /\ UNCHANGED notPolls

\* lines 333-365, 381-401: the poll of this edition exists, its results are replaced
StoreExistingPoll ==
    /\ InLoop
    /\ sources[source_i].enabled /\ HasScraper(sources[source_i].type)
    /\ \E data \in ScrapedData :
           LET id == FindPoll(polls, sources[source_i].url, FieldEndOf(data))
           IN  /\ id # None
               /\ polls' = [polls EXCEPT ![id] =
                      PollRow(sources[source_i], data, FieldEndOf(data))]
               /\ poll_results' =
                      DeleteResults(poll_results, id)
                          \o StoreResults(id, data.results, db_parties)
               /\ stored_polls' = Append(stored_polls, id)
               /\ stored_data' = Append(stored_data, data.results)
    /\ source_i' = source_i + 1
    /\ UNCHANGED <<sources, party_cache, ppc>>
    /\ UNCHANGED notPolls

\* lines 403-408 and 411-444: commit, refresh the party cache and return
UpdatePartyCache ==
    /\ ppc = "loop"
    /\ source_i > Len(sources)
    /\ IF polls = <<>>
       THEN UNCHANGED party_cache
       ELSE \E newest \in NewestPolls(polls) :
                party_cache' = CacheFrom(party_cache, polls, poll_results, newest, db_parties)
    /\ ppc' = "returned"
    /\ UNCHANGED <<sources, source_i, polls, poll_results, stored_polls, stored_data>>
    /\ UNCHANGED notPolls

PollsNext ==
    \/ FetchBegin
    \/ SkipSource
    \/ ScrapeRaises
    \/ StoreNewPoll
    \/ StoreExistingPoll
    \/ UpdatePartyCache

SpecPolls == PollsInit /\ [][PollsNext]_vars

\* ------------------------------------------------------------------------
\* The two ingestion paths that store raw labels
\* ------------------------------------------------------------------------
StoreInit == MotionInit \/ PollsInit
StoreNext == MotionNext \/ PollsNext
SpecStore == StoreInit /\ [][StoreNext]_vars

\* ------------------------------------------------------------------------
\* Properties of upsert_motion and fetch_and_store_polls
\* ------------------------------------------------------------------------

\* the rows of an association table that belong to one motion or poll
PartiesOf(id) == SelectSeq(motion_parties, LAMBDA r : r.motion_id = id)
CandidatesOf(id) == SelectSeq(motion_candidates, LAMBDA r : r.motion_id = id)
ResultsOf(id) == SelectSeq(poll_results, LAMBDA r : r.poll_id = id)

\* the motions upsert_motion was called for
Upserted == {i \in DOMAIN last_parsed : last_parsed[i] # NotParsed}
MotionOf(item_id) == FindMotion(motions, item_id)

\* the label is one the matcher resolves with the parties or candidates at hand
PartyKnown(label) == match_party(label, db_parties) # None
PersonKnown(entry) == match_candidate(entry.name, entry.person_id, db_candidates) # None

\* C21: every party entry and submitter entry of a motion passed to
\* upsert_motion, and every row of a stored poll, has exactly one row in its
\* table, in order, with the raw label; the row of a label that was not
\* matched has a null party or candidate id.
C21_RawLabelAlwaysStored ==
    /\ \A i \in Upserted :
           LET entries == last_parsed[i].parties
               people == last_parsed[i].submitters
               prows == PartiesOf(MotionOf(i))
               crows == CandidatesOf(MotionOf(i))
           IN  /\ Len(prows) = Len(entries)
               /\ \A k \in 1..Len(entries) :
                      /\ prows[k].notubiz_party_name = entries[k].name
                      /\ ~PartyKnown(entries[k].name) => prows[k].party_id = None
               /\ Len(crows) = Len(people)
               /\ \A k \in 1..Len(people) :
                      /\ crows[k].notubiz_person_name = people[k].name
                      /\ ~PersonKnown(people[k]) => crows[k].candidate_id = None
    /\ \A n \in 1..Len(stored_polls) :
           LET rows == ResultsOf(stored_polls[n])
           IN  /\ Len(rows) = Len(stored_data[n])
               /\ \A k \in 1..Len(rows) :
                      /\ rows[k].party_name_raw = stored_data[n][k].party_name_raw
                      /\ match_party_name(stored_data[n][k].party_name_raw, db_parties) = None
                             => rows[k].party_id = None

\* unmatched labels are on file: a motion with an unknown party and an
\* unknown submitter next to known ones
C21_Witness ==
    /\ upc = "ready"
    /\ \E i \in Upserted :
           /\ Len(PartiesOf(MotionOf(i))) = 2
           /\ PartiesOf(MotionOf(i))[1].party_id = None
           /\ PartiesOf(MotionOf(i))[1].notubiz_party_name = UnknownParty.name
           /\ PartiesOf(MotionOf(i))[2].party_id = 3
           /\ Len(CandidatesOf(MotionOf(i))) = 2
           /\ CandidatesOf(MotionOf(i))[1].candidate_id = None
           /\ CandidatesOf(MotionOf(i))[2].candidate_id = 1

\* the rows the latest call for a motion is to leave behind
DerivedParties(id, entries) ==
    [k \in 1..Len(entries) |->
        [motion_id |-> id,
         party_id |-> match_party(entries[k].name, db_parties),
         notubiz_party_name |-> entries[k].name]]
DerivedCandidates(id, people) ==
    [k \in 1..Len(people) |->
        [motion_id |-> id,
         candidate_id |-> match_candidate(people[k].name, people[k].person_id, db_candidates),
         notubiz_person_name |-> people[k].name,
         notubiz_person_id |-> people[k].person_id]]

\* C22: there is at most one Motion row per notubiz_item_id, and its
\* MotionParty and MotionCandidate rows are exactly those of the parties and
\* submitters of the latest upsert_motion call for that id; no row belongs
\* to another motion, so repeating a call adds nothing.
C22_UpsertReplaces ==
    upc = "ready" =>
        /\ \A a, b \in 1..Len(motions) :
               motions[a].notubiz_item_id = motions[b].notubiz_item_id => a = b
        /\ {motions[k].notubiz_item_id : k \in 1..Len(motions)} = Upserted
        /\ \A i \in Upserted :
               /\ motions[MotionOf(i)].title = last_parsed[i].title
               /\ PartiesOf(MotionOf(i)) = DerivedParties(MotionOf(i), last_parsed[i].parties)
               /\ CandidatesOf(MotionOf(i))
                      = DerivedCandidates(MotionOf(i), last_parsed[i].submitters)
        /\ \A k \in 1..Len(motion_parties) : motion_parties[k].motion_id \in 1..Len(motions)
        /\ \A k \in 1..Len(motion_candidates) :
               motion_candidates[k].motion_id \in 1..Len(motions)

\* a motion was upserted twice and holds the rows of the second call only,
\* fewer than the first call had left
C22_Witness ==
    /\ upc = "ready"
    /\ upserts = 2
    /\ Len(motions) = 1
    /\ Len(motion_parties) = 0
    /\ Len(motion_candidates) = 1
    /\ \E l \in DOMAIN unmatched_parties : unmatched_parties[l] = 2

\* the cache agrees with poll k: every party with a matched seat value in
\* it has that value and the poll's field_end
CacheInSync(k) ==
    \A id \in DOMAIN party_cache :
        SeatsByParty(SeatResults(poll_results, k), id) # None =>
            /\ party_cache[id].polled_seats = SeatsByParty(SeatResults(poll_results, k), id)
            /\ party_cache[id].poll_updated_at = polls[k].field_end

\* C23: after fetch_and_store_polls returns, the party cache is in sync with
\* a poll of greatest field_end among the polls that have a seat value.
C23_CacheFollowsNewestSeatPoll ==
    (ppc = "returned" /\ NewestSeatPolls(polls, poll_results) # {}) =>
        \E k \in NewestSeatPolls(polls, poll_results) : CacheInSync(k)

====
